---- MODULE Spec2Model ----
(***************************************************************************)
(* LocalCloud media store: path sandbox, range streaming, background       *)
(* worker pools and device-sync ingestion, modelled from the Go sources.   *)
(*                                                                         *)
(* Strings are sequences of one-character strings, so that the string      *)
(* functions of the code (HasPrefix, TrimPrefix, Split, filepath.Clean,    *)
(* filepath.Join, strconv.ParseInt) are computed the way the code          *)
(* computes them.                                                          *)
(***************************************************************************)
EXTENDS Integers, Sequences, FiniteSets, TLC

VARIABLES
    DataDir,        \* api.DataDir, set by RegisterRoutes from config.DataDir
    fileSize,       \* size in bytes of the regular file stored below the data root
    fileReq,        \* the last /api/file request: [path, range]
    fileResp,       \* the response FileHandler gave to fileReq
    mainPc,         \* position of main: which start calls it has made
    thumbnailQueue, \* api.thumbnailQueue: 0 (nil) or the index of a channel in chans
    backupQueue,    \* api.backupQueue: 0 (nil) or the index of a channel in chans
    chans,          \* the channels made so far: [pool, conc, workers, buf]
    lazy,           \* `go StartBackupWorker` goroutines: [spawned, check, make]
    indexLeft,      \* files the startup indexing goroutine has still to enqueue
    callPc,         \* per request: position in its Enqueue calls
    callJob,        \* per request: the job it enqueues
    lastBackup,     \* per request: [sawNil, outcome] of its last EnqueueBackup
    lastThumb,      \* per request: outcome of its last EnqueueThumbnail
    disk,           \* regular files on disk: path -> content
    dirs,           \* directories on disk
    media,          \* rows of the media table, in id order
    upPc,           \* per request: position in SyncUploadHandler
    upReq,          \* per request: [content, filename, device] it uploads
    upTmp,          \* per request: tmpPath
    upFinal,        \* per request: finalPath
    upId,           \* per request: lastID
    upResp,         \* per request: the JSON response
    before,         \* per request: the requests that had ended when it began
    filesTable,     \* rows of the files table, in id order
    work,           \* per backup worker: [pc, job, dest] of its processBackup call,
                    \* and how its last call ended
    now,            \* readings of time.Now() taken so far
    copied,         \* destinations CopyFile has written bytes to
    decoded,        \* [src, dst] pairs generateThumbnail has decoded and saved
    searchResp,     \* the response of /api/search to the one search of the run
    thumbLast       \* the last generateThumbnail call: who made it, for which source
                    \* and artifact, whether the artifact was there, the error, and
                    \* the status /api/thumbnail answered with

fileVars == <<DataDir, fileSize, fileReq, fileResp>>

poolVars == <<mainPc, thumbnailQueue, backupQueue, chans, lazy, indexLeft,
              callPc, callJob, lastBackup, lastThumb>>

upVars == <<disk, dirs, media, upPc, upReq, upTmp, upFinal, upId, upResp, before>>

workVars == <<filesTable, work, now, copied, decoded, thumbLast>>

queryVars == <<searchResp>>

vars == <<fileVars, poolVars, upVars, workVars, queryVars>>

\* what the actions of one component leave alone
notFile == <<poolVars, upVars, workVars, queryVars>>
notPool == <<fileVars, upVars, workVars, queryVars>>
notUpload == <<fileVars, workVars, queryVars>>
notWork == <<fileVars, upPc, upReq, upTmp, upFinal, upId, upResp, before, queryVars>>
notSearch == <<fileVars, mainPc, thumbnailQueue, backupQueue, lazy, indexLeft,
               callPc, callJob, lastBackup, lastThumb,
               media, upPc, upReq, upTmp, upFinal, upId, upResp, before,
               work, copied, decoded, thumbLast>>

\* ------------------------------------------------------------------ bounds

MaxPathLen == 5      \* longest virtual path (characters) a client sends
MaxRangeLen == 3     \* longest range spec (characters after the prefix)
MaxSize == 3         \* largest file size (bytes)
ThumbnailQueueCap == 2   \* buffer of thumbnailQueue (1024 in the code), scaled down
BackupQueueCap == 1      \* buffer of backupQueue (4096 in the code), scaled down
MaxLazyStarts == 2   \* most `go StartBackupWorker` goroutines spawned in a run
MaxIndexed == 1      \* files found by the startup indexing run
MaxClock == 2        \* seconds the clock advances in a run
MaxQueryLen == 3     \* longest search query (characters) a client sends
MaxPatternLen == 3   \* longest regex pattern accepted (200 bytes in the code), scaled down

\* ------------------------------------------------------------------ strings

Slash == "/"
NoStr == <<>>

\* every string over alphabet of length at most n
RECURSIVE StringsUpTo(_, _)
StringsUpTo(alphabet, n) ==
    IF n = 0 THEN { <<>> }
    ELSE LET shorter == StringsUpTo(alphabet, n - 1)
         IN  shorter \cup { Append(s, c) : s \in shorter, c \in alphabet }

\* strings.HasPrefix
HasPrefix(s, prefix) ==
    /\ Len(prefix) <= Len(s)
    /\ SubSeq(s, 1, Len(prefix)) = prefix

\* strings.TrimPrefix
TrimPrefix(s, prefix) ==
    IF HasPrefix(s, prefix) THEN SubSeq(s, Len(prefix) + 1, Len(s)) ELSE s

RECURSIVE SplitFrom(_, _, _, _, _)
SplitFrom(s, sep, i, cur, acc) ==
    IF i > Len(s) THEN Append(acc, cur)
    ELSE IF s[i] = sep THEN SplitFrom(s, sep, i + 1, <<>>, Append(acc, cur))
    ELSE SplitFrom(s, sep, i + 1, Append(cur, s[i]), acc)

\* strings.Split(s, sep) for a one-character separator
Split(s, sep) == SplitFrom(s, sep, 1, <<>>, <<>>)

RECURSIVE JoinFrom(_, _, _)
JoinFrom(parts, sep, i) ==
    IF i > Len(parts) THEN <<>>
    ELSE IF i = Len(parts) THEN parts[i]
    ELSE parts[i] \o <<sep>> \o JoinFrom(parts, sep, i + 1)

\* strings.Join(parts, sep)
JoinStr(parts, sep) == JoinFrom(parts, sep, 1)

\* ------------------------------------------------------------------ path/filepath

Dot == <<".">>
DotDot == <<".", ".">>

IsAbs(p) == Len(p) > 0 /\ p[1] = Slash

\* the element loop of filepath.Clean: "." and empty elements are dropped, ".."
\* removes the element before it, is dropped at the root of a rooted path and
\* kept at the front of a relative one
RECURSIVE CleanElems(_, _, _, _)
CleanElems(elems, i, rooted, out) ==
    IF i > Len(elems) THEN out
    ELSE LET e == elems[i]
         IN  IF e = <<>> \/ e = Dot THEN CleanElems(elems, i + 1, rooted, out)
             ELSE IF e = DotDot
                  THEN IF Len(out) > 0 /\ out[Len(out)] # DotDot
                       THEN CleanElems(elems, i + 1, rooted, SubSeq(out, 1, Len(out) - 1))
                       ELSE IF rooted THEN CleanElems(elems, i + 1, rooted, out)
                       ELSE CleanElems(elems, i + 1, rooted, Append(out, e))
                  ELSE CleanElems(elems, i + 1, rooted, Append(out, e))

\* the elements of the cleaned path
Elems(p) == CleanElems(Split(p, Slash), 1, IsAbs(p), <<>>)

\* filepath.Clean
Clean(p) ==
    IF p = <<>> THEN Dot
    ELSE LET body == JoinStr(Elems(p), Slash)
         IN  IF IsAbs(p) THEN <<Slash>> \o body
             ELSE IF body = <<>> THEN Dot ELSE body

\* filepath.Join: the elements from the first non-empty one on, joined and cleaned
RECURSIVE JoinAll(_)
JoinAll(elems) ==
    IF elems = <<>> THEN <<>>
    ELSE IF Head(elems) # <<>> THEN Clean(JoinStr(elems, Slash))
    ELSE JoinAll(Tail(elems))

Join(a, b) == JoinAll(<<a, b>>)

\* filepath.Base
Base(p) ==
    IF p = <<>> THEN Dot
    ELSE LET parts == SelectSeq(Split(p, Slash), LAMBDA e : e # <<>>)
         IN  IF parts = <<>> THEN <<Slash>> ELSE parts[Len(parts)]

\* filepath.Ext: from the last dot of the last element on
RECURSIVE ExtFrom(_, _)
ExtFrom(p, i) ==
    IF i = 0 \/ p[i] = Slash THEN <<>>
    ELSE IF p[i] = "." THEN SubSeq(p, i, Len(p))
    ELSE ExtFrom(p, i - 1)

Ext(p) == ExtFrom(p, Len(p))

\* length of the common prefix of two element lists
RECURSIVE CommonLen(_, _, _)
CommonLen(a, b, n) ==
    IF n < Len(a) /\ n < Len(b) /\ a[n + 1] = b[n + 1] THEN CommonLen(a, b, n + 1) ELSE n

\* filepath.Rel(base, target) for two rooted paths
Rel(base, target) ==
    LET b == Elems(base)
        t == Elems(target)
        n == CommonLen(b, t, 0)
        ups == [i \in 1..(Len(b) - n) |-> DotDot]
        rest == ups \o SubSeq(t, n + 1, Len(t))
    IN  IF rest = <<>> THEN Dot ELSE JoinStr(rest, Slash)

\* working directory of the server process
Cwd == <<"/", "w">>

\* filepath.Abs
Abs(p) == IF IsAbs(p) THEN Clean(p) ELSE Join(Cwd, p)

\* p is dir itself or lies below dir, compared element by element
IsWithin(dir, p) ==
    LET d == Elems(dir)
        e == Elems(p)
    IN  /\ Len(d) <= Len(e)
        /\ SubSeq(e, 1, Len(d)) = d

\* a path with a ".." element
HasDotDotElem(p) == \E i \in DOMAIN Split(p, Slash) : Split(p, Slash)[i] = DotDot

\* ------------------------------------------------------------------ path sandbox

\* absClean(root, rel): [err, path]; err is "path outside of data dir"
absClean(root, rel) ==
    LET abs == Join(root, TrimPrefix(rel, <<Slash>>))
        realRoot == Abs(root)
        realPath == Abs(abs)
    IN  IF ~HasPrefix(realPath, realRoot)
        THEN [err |-> TRUE, path |-> NoStr]
        ELSE [err |-> FALSE, path |-> realPath]

\* ------------------------------------------------------------------ range parsing

Digits == <<"0", "1", "2", "3", "4", "5", "6", "7", "8", "9">>

IsDigit(c) == \E d \in DOMAIN Digits : Digits[d] = c

DigitVal(c) == (CHOOSE d \in DOMAIN Digits : Digits[d] = c) - 1

RECURSIVE DecimalVal(_, _)
DecimalVal(s, n) ==
    IF n = 0 THEN 0 ELSE 10 * DecimalVal(s, n - 1) + DigitVal(s[n])

\* the decimal text of a number that is not negative (fmt "%d")
RECURSIVE Itoa(_)
Itoa(n) == IF n < 10 THEN <<Digits[n + 1]>> ELSE Itoa(n \div 10) \o <<Digits[(n % 10) + 1]>>

\* strconv.ParseInt(s, 10, 64): [err, val]. An optional sign, then one or more
\* digits; a value beyond 64 bits is an error too.
ParseInt(s) ==
    LET signed == Len(s) > 0 /\ s[1] \in {"+", "-"}
        digits == IF signed THEN SubSeq(s, 2, Len(s)) ELSE s
        mag == DecimalVal(digits, Len(digits))
    IN  IF digits = <<>> \/ (\E i \in DOMAIN digits : ~IsDigit(digits[i])) \/ Len(digits) > 18
        THEN [err |-> TRUE, val |-> 0]
        ELSE [err |-> FALSE, val |-> IF signed /\ s[1] = "-" THEN 0 - mag ELSE mag]

BytesEq == <<"b", "y", "t", "e", "s", "=">>

RangeErr == [err |-> TRUE, start |-> 0, end |-> 0]

\* the suffix form "bytes=-n" of parseRange
SuffixRange(n, size) ==
    LET sl == IF n > size THEN size ELSE n
    IN  [err |-> FALSE, start |-> size - sl, end |-> size - 1]

\* parseRange(rangeHeader, size): [err, start, end]
parseRange(rangeHeader, size) ==
    IF ~HasPrefix(rangeHeader, BytesEq) THEN RangeErr
    ELSE LET parts == Split(TrimPrefix(rangeHeader, BytesEq), "-")
         IN  IF Len(parts) # 2 THEN RangeErr
             ELSE IF parts[1] = <<>>
                  THEN LET sl == ParseInt(parts[2])
                       IN  IF sl.err THEN RangeErr ELSE SuffixRange(sl.val, size)
                  ELSE LET start == ParseInt(parts[1])
                           end == IF parts[2] = <<>>
                                  THEN [err |-> FALSE, val |-> size - 1]
                                  ELSE ParseInt(parts[2])
                       IN  IF start.err \/ end.err THEN RangeErr
                           ELSE IF start.val > end.val \/ end.val >= size THEN RangeErr
                           ELSE [err |-> FALSE, start |-> start.val, end |-> end.val]

\* ------------------------------------------------------------------ file streaming

\* the bytes of the stored file: the byte at offset k is k
FileBytes(size) == [i \in 1..size |-> i - 1]

\* the regular file below the data root, and a file in a sibling directory whose
\* name starts with the name of the data root
InsideFile(root) == Join(Abs(root), <<"d">>)
SiblingFile(root) == Abs(root) \o <<"2">>

IsRegularFile(root, p) == p \in {InsideFile(root), SiblingFile(root)}
IsDirectory(root, p) == p = Abs(root) \/ \E n \in 1..Len(Abs(root)) : p = Clean(SubSeq(Abs(root), 1, n))

SizeOf(root, p, size) == IF p = InsideFile(root) THEN size ELSE 1

NoRange == [start |-> 0, end |-> 0, size |-> 0]

Reply(status, opened, contentRange, contentLength, body) ==
    [status |-> status, opened |-> opened, contentRange |-> contentRange,
     contentLength |-> contentLength, body |-> body]

\* the read loop without the Seek before it
StreamBodyNoSeek(bytes, start, left) ==
    LET n == IF left < Len(bytes) THEN left ELSE Len(bytes)
    IN  IF n <= 0 THEN <<>> ELSE SubSeq(bytes, 1, n)

\* what the read loop of FileHandler writes: `left` bytes from offset start, or
\* fewer when the file ends first
StreamBody(bytes, start, left) ==
    LET avail == Len(bytes) - start
        n == IF left < avail THEN left ELSE avail
    IN  IF n <= 0 THEN <<>> ELSE SubSeq(bytes, start + 1, start + n)

\* the 206 branch of FileHandler
PartialReply(abs, bytes, r) ==
    IF r.start < 0 THEN Reply(500, <<abs>>, NoRange, 0, <<>>)
    ELSE Reply(206, <<abs>>, [start |-> r.start, end |-> r.end, size |-> Len(bytes)],
               r.end - r.start + 1, StreamBody(bytes, r.start, r.end - r.start + 1))

\* FileHandler(path, Range): opened is the sequence of paths handed to os.Open
FileHandler(root, q, rangeHeader, size) ==
    IF q = <<>> THEN Reply(400, <<>>, NoRange, 0, <<>>)
    ELSE LET abs == absClean(root, q)
         IN  IF abs.err THEN Reply(400, <<>>, NoRange, 0, <<>>)
             ELSE IF IsDirectory(root, abs.path)
                  THEN Reply(500, <<abs.path>>, NoRange, 0, <<>>)
             ELSE IF ~IsRegularFile(root, abs.path)
                  THEN Reply(404, <<abs.path>>, NoRange, 0, <<>>)
             ELSE LET bytes == FileBytes(SizeOf(root, abs.path, size))
                  IN  IF rangeHeader = <<>>
                      THEN Reply(200, <<abs.path>>, NoRange, Len(bytes), bytes)
                      ELSE LET r == parseRange(rangeHeader, Len(bytes))
                           IN  IF r.err THEN Reply(416, <<abs.path>>, NoRange, 0, <<>>)
                               ELSE PartialReply(abs.path, bytes, r)

\* ------------------------------------------------------------------ worker pools

Callers == {"r1", "r2"}          \* requests in flight
Jobs == {"p1", "p2"}             \* the paths handed to the pools

MainConcurrency == 3             \* StartThumbnailWorker(3), StartBackupWorker(3, ...)
LazyConcurrency == 2             \* go StartBackupWorker(2, ...)

Nil == 0

\* make(chan, cap) followed by the loop that starts `concurrency` workers on it;
\* unbound counts the worker goroutines of the call that have not yet reached
\* their `for job := range queue`
NewChan(pool, concurrency) ==
    [pool |-> pool, conc |-> concurrency, workers |-> concurrency, buf |-> <<>>,
     unbound |-> 0]

\* a send that does not look at the capacity
SelectSendUnbounded(buf, job, cap) == Append(buf, job)

\* select { case queue <- job: default: } on a buffered channel
SelectSend(buf, job, cap) == IF Len(buf) < cap THEN Append(buf, job) ELSE buf

CapOf(pool) == IF pool = "thumb" THEN ThumbnailQueueCap ELSE BackupQueueCap

\* the channels after a non-blocking send of job to channel q (Nil: nothing is sent)
SendTo(q, job) ==
    IF q = Nil THEN chans
    ELSE [chans EXCEPT ![q].buf = SelectSend(@, job, CapOf(chans[q].pool))]

\* what became of the job
Outcome(q) ==
    IF q = Nil THEN "dropped_nil"
    ELSE IF Len(chans[q].buf) < CapOf(chans[q].pool) THEN "queued"
    ELSE "dropped_full"

NoCall == [sawNil |-> FALSE, outcome |-> "none"]

PoolQuiet ==
    /\ mainPc = "off"
    /\ thumbnailQueue = Nil
    /\ backupQueue = Nil
    /\ chans = <<>>
    /\ lazy = [spawned |-> 0, check |-> 0, make |-> 0]
    /\ indexLeft = 0
    /\ callPc = [c \in Callers |-> "idle"]
    /\ callJob = [c \in Callers |-> "p1"]
    /\ lastBackup = [c \in Callers |-> NoCall]
    /\ lastThumb = [c \in Callers |-> "none"]

NoFiles == [p \in {} |-> "B1"]

NoUpload == [content |-> "B1", filename |-> <<>>, device |-> <<>>]
NoAnswer == [status |-> 0, error |-> "", skipped |-> FALSE, path |-> <<>>, id |-> 0]

UpQuiet ==
    /\ disk = NoFiles
    /\ dirs = {}
    /\ media = <<>>
    /\ upPc = [u \in Callers |-> "new"]
    /\ upReq = [u \in Callers |-> NoUpload]
    /\ upTmp = [u \in Callers |-> <<>>]
    /\ upFinal = [u \in Callers |-> <<>>]
    /\ upId = [u \in Callers |-> 0]
    /\ upResp = [u \in Callers |-> NoAnswer]
    /\ before = [u \in Callers |-> {}]

Idle == [pc |-> "idle", job |-> [absPath |-> <<>>, mediaID |-> 0], dest |-> <<>>,
         outcome |-> "none", fd |-> "closed", bytes |-> ""]

\* a worker back at the receive of its loop after a job that ended with outcome
IdleAfter(outcome) == [Idle EXCEPT !.outcome = outcome]

NoThumb == [by |-> "none", src |-> <<>>, dst |-> <<>>, existed |-> FALSE, err |-> FALSE,
            status |-> 0]

NoSearch == [status |-> 0, source |-> "", query |-> <<>>, limit |-> 0, offset |-> 0,
             read |-> {}, items |-> <<>>, fts |-> "none"]

WorkQuiet ==
    /\ searchResp = NoSearch
    /\ filesTable = <<>>
    /\ work = [w \in 1..MainConcurrency |-> Idle]
    /\ now = 0
    /\ copied = {}
    /\ decoded = {}
    /\ thumbLast = NoThumb

FileQuiet ==
    /\ DataDir = <<"/", "d">>
    /\ fileSize = 0
    /\ fileReq = [path |-> <<>>, range |-> <<>>]
    /\ fileResp = [status |-> 0, opened |-> <<>>,
                   contentRange |-> [start |-> 0, end |-> 0, size |-> 0],
                   contentLength |-> 0, body |-> <<>>]

\* main of cmd/server: the one that starts the pools before it listens
\* ("start"), or the one that registers the routes and listens at once ("listen")
PoolInit ==
    /\ FileQuiet
    /\ UpQuiet
    /\ WorkQuiet
    /\ mainPc \in {"start", "listen"}
    /\ thumbnailQueue = Nil
    /\ backupQueue = Nil
    /\ chans = <<>>
    /\ lazy = [spawned |-> 0, check |-> 0, make |-> 0]
    /\ indexLeft = IF mainPc = "start" THEN MaxIndexed ELSE 0
    /\ callPc = [c \in Callers |-> "idle"]
    /\ callJob = [c \in Callers |-> "p1"]
    /\ lastBackup = [c \in Callers |-> NoCall]
    /\ lastThumb = [c \in Callers |-> "none"]

\* StartThumbnailWorker(3), first call of main
MainStartThumbnail ==
    /\ mainPc = "start"
    /\ mainPc' = "backup"
    /\ IF thumbnailQueue # Nil
       THEN UNCHANGED <<thumbnailQueue, chans>>
       ELSE /\ chans' = Append(chans, NewChan("thumb", MainConcurrency))
            /\ thumbnailQueue' = Len(chans) + 1
    /\ UNCHANGED <<backupQueue, lazy, indexLeft, callPc, callJob, lastBackup, lastThumb, notPool>>

\* StartBackupWorker(3, backupDir) of main
MainStartBackup ==
    /\ mainPc = "backup"
    /\ mainPc' = "thumb2"
    /\ IF backupQueue # Nil
       THEN UNCHANGED <<backupQueue, chans>>
       ELSE /\ chans' = Append(chans, NewChan("backup", MainConcurrency))
            /\ backupQueue' = Len(chans) + 1
    /\ UNCHANGED <<thumbnailQueue, lazy, indexLeft, callPc, callJob, lastBackup, lastThumb, notPool>>

\* StartThumbnailWorker(3), second call of main, then ListenAndServe
MainStartThumbnailAgain ==
    /\ mainPc = "thumb2"
    /\ mainPc' = "listen"
    /\ IF thumbnailQueue # Nil
       THEN UNCHANGED <<thumbnailQueue, chans>>
       ELSE /\ chans' = Append(chans, NewChan("thumb", MainConcurrency))
            /\ thumbnailQueue' = Len(chans) + 1
    /\ UNCHANGED <<backupQueue, lazy, indexLeft, callPc, callJob, lastBackup, lastThumb, notPool>>

\* the indexing goroutine of main: EnqueueThumbnail for a file it found
IndexerEnqueueThumbnail ==
    /\ indexLeft > 0
    /\ indexLeft' = indexLeft - 1
    /\ \E j \in Jobs : chans' = SendTo(thumbnailQueue, j)
    /\ UNCHANGED <<mainPc, thumbnailQueue, backupQueue, lazy, callPc, callJob,
                   lastBackup, lastThumb, notPool>>

\* a request reaches the Enqueue calls of its handler with a job
CallerStart(c) ==
    /\ mainPc = "listen"
    /\ callPc[c] \in {"idle", "done"}
    /\ \E j \in Jobs : callJob' = [callJob EXCEPT ![c] = j]
    /\ callPc' = [callPc EXCEPT ![c] = "backup"]
    /\ lastBackup' = [lastBackup EXCEPT ![c] = NoCall]
    /\ lastThumb' = [lastThumb EXCEPT ![c] = "none"]
    /\ UNCHANGED <<mainPc, thumbnailQueue, backupQueue, chans, lazy, indexLeft, notPool>>

\* EnqueueBackup, up to the select: a nil queue starts `go StartBackupWorker(2, ...)`
EnqueueBackupCheck(c) ==
    /\ callPc[c] = "backup"
    /\ callPc' = [callPc EXCEPT ![c] = "select"]
    /\ lastBackup' = [lastBackup EXCEPT ![c] = [sawNil |-> backupQueue = Nil, outcome |-> "none"]]
    /\ IF backupQueue = Nil
       THEN /\ lazy.spawned < MaxLazyStarts
            /\ lazy' = [lazy EXCEPT !.spawned = @ + 1, !.check = @ + 1]
       ELSE lazy' = lazy
    /\ UNCHANGED <<mainPc, thumbnailQueue, backupQueue, chans, indexLeft, callJob,
                   lastThumb, notPool>>

\* EnqueueBackup, the select
EnqueueBackupSelect(c) ==
    /\ callPc[c] = "select"
    /\ callPc' = [callPc EXCEPT ![c] = "thumb"]
    /\ chans' = SendTo(backupQueue, callJob[c])
    /\ lastBackup' = [lastBackup EXCEPT ![c].outcome = Outcome(backupQueue)]
    /\ UNCHANGED <<mainPc, thumbnailQueue, backupQueue, lazy, indexLeft, callJob, lastThumb, notPool>>

\* EnqueueThumbnail, called by SyncUploadHandler after EnqueueBackup
EnqueueThumbnail(c) ==
    /\ callPc[c] = "thumb"
    /\ callPc' = [callPc EXCEPT ![c] = "done"]
    /\ chans' = SendTo(thumbnailQueue, callJob[c])
    /\ lastThumb' = [lastThumb EXCEPT ![c] = Outcome(thumbnailQueue)]
    /\ UNCHANGED <<mainPc, thumbnailQueue, backupQueue, lazy, indexLeft, callJob, lastBackup, notPool>>

\* StartBackupWorker in its own goroutine: the test of backupQueue
LazyStartCheck ==
    /\ lazy.check > 0
    /\ lazy' = IF backupQueue # Nil
               THEN [lazy EXCEPT !.check = @ - 1]
               ELSE [lazy EXCEPT !.check = @ - 1, !.make = @ + 1]
    /\ UNCHANGED <<mainPc, thumbnailQueue, backupQueue, chans, indexLeft, callPc,
                   callJob, lastBackup, lastThumb, notPool>>

\* StartBackupWorker in its own goroutine: make the channel, start the workers
LazyStartMake ==
    /\ lazy.make > 0
    /\ lazy' = [lazy EXCEPT !.make = @ - 1]
    /\ chans' = Append(chans, NewChan("backup", LazyConcurrency))
    /\ backupQueue' = Len(chans) + 1
    /\ UNCHANGED <<mainPc, thumbnailQueue, indexLeft, callPc, callJob, lastBackup, lastThumb, notPool>>

\* a worker receives the next job of its channel and processes it
WorkerTake(q) ==
    /\ chans[q].workers > 0
    /\ chans[q].buf # <<>>
    /\ chans' = [chans EXCEPT ![q].buf = Tail(@)]
    /\ UNCHANGED <<mainPc, thumbnailQueue, backupQueue, lazy, indexLeft, callPc,
                   callJob, lastBackup, lastThumb, notPool>>

PoolNext ==
    \/ MainStartThumbnail
    \/ MainStartBackup
    \/ MainStartThumbnailAgain
    \/ IndexerEnqueueThumbnail
    \/ \E c \in Callers : CallerStart(c)
    \/ \E c \in Callers : EnqueueBackupCheck(c)
    \/ \E c \in Callers : EnqueueBackupSelect(c)
    \/ \E c \in Callers : EnqueueThumbnail(c)
    \/ LazyStartCheck
    \/ LazyStartMake
    \/ \E q \in DOMAIN chans : WorkerTake(q)

SpecPool == PoolInit /\ [][PoolNext]_vars

\* StartBackupWorker in its own goroutine: make the channel, assign it to
\* backupQueue and spawn the workers, which have not run yet
LazyStartSpawn ==
    /\ lazy.make > 0
    /\ lazy' = [lazy EXCEPT !.make = @ - 1]
    /\ chans' = Append(chans, [NewChan("backup", LazyConcurrency) EXCEPT
                                  !.workers = 0, !.unbound = LazyConcurrency])
    /\ backupQueue' = Len(chans) + 1
    /\ UNCHANGED <<mainPc, thumbnailQueue, indexLeft, callPc, callJob, lastBackup, lastThumb, notPool>>

\* a worker goroutine spawned with channel q begins `for job := range backupQueue`:
\* the range expression is the package variable, read when the goroutine runs
WorkerBegin(q) ==
    /\ q \in DOMAIN chans
    /\ chans[q].unbound > 0
    /\ chans' = [chans EXCEPT ![q].unbound = @ - 1, ![backupQueue].workers = @ + 1]
    /\ UNCHANGED <<mainPc, thumbnailQueue, backupQueue, lazy, indexLeft, callPc,
                   callJob, lastBackup, lastThumb, notPool>>

\* the one request of caller c
CallerOnce(c) == callPc[c] = "idle" /\ CallerStart(c)

\* a worker of channel q, if there is such a channel, takes a job
LiveTake(q) == q \in DOMAIN chans /\ WorkerTake(q)

\* the channels a run can make: two by main, or one by each lazy start
LiveChans == 1..(MaxLazyStarts + 2)

LiveNext ==
    \/ MainStartThumbnail
    \/ MainStartBackup
    \/ MainStartThumbnailAgain
    \/ IndexerEnqueueThumbnail
    \/ \E c \in Callers : CallerOnce(c)
    \/ \E c \in Callers : EnqueueBackupCheck(c)
    \/ \E c \in Callers : EnqueueBackupSelect(c)
    \/ \E c \in Callers : EnqueueThumbnail(c)
    \/ LazyStartCheck
    \/ LazyStartSpawn
    \/ \E q \in LiveChans : WorkerBegin(q)
    \/ \E q \in LiveChans : LiveTake(q)

\* the scheduler runs every goroutine that can take a step: main, the
\* goroutines of the lazy starts, the workers, and the handlers under way
LiveFair ==
    /\ WF_vars(MainStartThumbnail) /\ WF_vars(MainStartBackup)
    /\ WF_vars(MainStartThumbnailAgain)
    /\ WF_vars(LazyStartCheck) /\ WF_vars(LazyStartSpawn)
    /\ \A c \in Callers : /\ WF_vars(EnqueueBackupCheck(c))
                          /\ WF_vars(EnqueueBackupSelect(c))
                          /\ WF_vars(EnqueueThumbnail(c))
    /\ \A q \in LiveChans : WF_vars(WorkerBegin(q)) /\ WF_vars(LiveTake(q))

SpecLive == PoolInit /\ [][LiveNext]_vars /\ LiveFair

\* ------------------------------------------------------------------ device-sync upload

Contents == {"B1", "B2"}
FileNames == { <<"a", ".", "jpg">>, <<"b", ".", "jpg">> }
DeviceIDs == { <<>>, <<"p">>, <<".", ".", "/", ".", ".">> }

\* hex of the SHA-256 of the content: different contents, different sums
Sha256Hex(content) == <<"sha256", content>>

\* filepath.Join(DataDir, "devices", deviceID), "unknown" for no device_id
DeviceDir(root, deviceID) ==
    JoinAll(<<root, <<"devices">>, IF deviceID = <<>> THEN <<"unknown">> ELSE deviceID>>)

\* fmt.Sprintf(".upload_%d_%s", time.Now().UnixNano(), header.Filename); the
\* clock reading of a request is written with the name of the request
TmpName(u, filename) == <<".upload_", u, "_">> \o filename

\* the directories os.MkdirAll(p) makes sure of: p and the directories above it
MkdirAll(p) ==
    { <<Slash>> \o JoinStr(SubSeq(Elems(p), 1, n), Slash) : n \in 0..Len(Elems(p)) }

Exists(files, directories, p) == p \in DOMAIN files \/ p \in directories

\* os.Create(p) followed by the write of content
WriteFile(files, p, content) ==
    [q \in DOMAIN files \cup {p} |-> IF q = p THEN content ELSE files[q]]

\* os.Remove(p) that leaves the file where it is
KeepFile(files, p) == files

\* os.Remove(p)
RemoveFile(files, p) == [q \in DOMAIN files \ {p} |-> files[q]]

\* os.Rename(from, to): to is replaced when it exists
RenameFile(files, from, to) ==
    [q \in (DOMAIN files \ {from}) \cup {to} |-> IF q = to THEN files[from] ELSE files[q]]

\* the loop that picks finalPath: the declared name, then name_1.ext, name_2.ext, ...
RECURSIVE NextFree(_, _, _, _, _, _)
NextFree(files, directories, deviceDir, finalName, candidate, i) ==
    IF ~Exists(files, directories, candidate) THEN candidate
    ELSE LET ext == Ext(finalName)
             nameOnly == SubSeq(finalName, 1, Len(finalName) - Len(ext))
         IN  NextFree(files, directories, deviceDir, finalName,
                      Join(deviceDir, nameOnly \o <<"_">> \o Itoa(i) \o ext), i + 1)

ChooseFinalPath(files, directories, deviceDir, finalName) ==
    NextFree(files, directories, deviceDir, finalName, Join(deviceDir, finalName), 1)

\* a duplicate test that compares the sum with the wrong column
DuplicateRowsByName(rows, sum) == { i \in DOMAIN rows : rows[i].filename = sum }

\* SELECT filepath FROM media WHERE sha256 = ?: the rows LIMIT 1 picks from
DuplicateRows(rows, sum) == { i \in DOMAIN rows : rows[i].sha256 = sum }

\* a new row of media: the columns of the INSERT, the defaults of the rest
MediaRow(filename, filepath, sum, deviceID) ==
    [filename |-> filename, filepath |-> filepath, sha256 |-> sum, device_id |-> deviceID,
     backed_up |-> 0, backup_path |-> <<>>, backup_at |-> 0]

\* relAPIPath(abs)
relAPIPath(root, abs) == <<Slash>> \o Rel(root, abs)

UpInit ==
    /\ FileQuiet
    /\ WorkQuiet
    /\ mainPc = "listen"
    /\ chans = <<NewChan("thumb", MainConcurrency), NewChan("backup", MainConcurrency)>>
    /\ thumbnailQueue = 1
    /\ backupQueue = 2
    /\ lazy = [spawned |-> 0, check |-> 0, make |-> 0]
    /\ indexLeft = 0
    /\ callPc = [c \in Callers |-> "idle"]
    /\ callJob = [c \in Callers |-> <<>>]
    /\ lastBackup = [c \in Callers |-> NoCall]
    /\ lastThumb = [c \in Callers |-> "none"]
    /\ disk = NoFiles
    /\ dirs = MkdirAll(DataDir)
    /\ media = <<>>
    /\ upPc = [u \in Callers |-> "new"]
    /\ upReq = [u \in Callers |-> NoUpload]
    /\ upTmp = [u \in Callers |-> <<>>]
    /\ upFinal = [u \in Callers |-> <<>>]
    /\ upId = [u \in Callers |-> 0]
    /\ upResp = [u \in Callers |-> NoAnswer]
    /\ before = [u \in Callers |-> {}]

\* SyncUploadHandler up to the sum: device folder, temporary file, content
UploadWriteTmp(u) ==
    /\ upPc[u] = "new"
    /\ \E content \in Contents, filename \in FileNames, device \in DeviceIDs :
          LET deviceDir == DeviceDir(DataDir, device)
              tmpPath == Join(deviceDir, TmpName(u, filename))
          IN  /\ upReq' = [upReq EXCEPT ![u] =
                     [content |-> content, filename |-> filename, device |-> device]]
              /\ dirs' = dirs \cup MkdirAll(deviceDir)
              /\ disk' = WriteFile(disk, tmpPath, content)
              /\ upTmp' = [upTmp EXCEPT ![u] = tmpPath]
    /\ before' = [before EXCEPT ![u] = { v \in Callers : upPc[v] = "done" }]
    /\ upPc' = [upPc EXCEPT ![u] = "hashed"]
    /\ UNCHANGED <<media, upFinal, upId, upResp, poolVars, notUpload>>

\* the duplicate check: a row with the same sum ends the request as skipped
UploadCheckDuplicate(u) ==
    /\ upPc[u] = "hashed"
    /\ LET found == DuplicateRows(media, Sha256Hex(upReq[u].content))
       IN  IF found # {}
           THEN \E i \in found :
                   /\ disk' = RemoveFile(disk, upTmp[u])
                   /\ upResp' = [upResp EXCEPT ![u] =
                          [status |-> 200, error |-> "", skipped |-> TRUE,
                           path |-> media[i].filepath, id |-> 0]]
                   /\ upPc' = [upPc EXCEPT ![u] = "done"]
           ELSE /\ upPc' = [upPc EXCEPT ![u] = "choose"]
                /\ UNCHANGED <<disk, upResp>>
    /\ UNCHANGED <<dirs, media, upReq, upTmp, upFinal, upId, before, poolVars, notUpload>>

\* the loop that chooses finalPath
UploadChooseFinal(u) ==
    /\ upPc[u] = "choose"
    /\ upFinal' = [upFinal EXCEPT ![u] =
           ChooseFinalPath(disk, dirs, DeviceDir(DataDir, upReq[u].device), upReq[u].filename)]
    /\ upPc' = [upPc EXCEPT ![u] = "move"]
    /\ UNCHANGED <<disk, dirs, media, upReq, upTmp, upId, upResp, before, poolVars, notUpload>>

\* os.Rename(tmpPath, finalPath)
UploadMove(u) ==
    /\ upPc[u] = "move"
    /\ disk' = RenameFile(disk, upTmp[u], upFinal[u])
    /\ upPc' = [upPc EXCEPT ![u] = "insert"]
    /\ UNCHANGED <<dirs, media, upReq, upTmp, upFinal, upId, upResp, before, poolVars, notUpload>>

\* INSERT INTO media(filename, filepath, sha256, device_id, ...)
UploadInsert(u) ==
    /\ upPc[u] = "insert"
    /\ media' = Append(media,
           MediaRow(Base(upFinal[u]), upFinal[u], Sha256Hex(upReq[u].content),
                    IF upReq[u].device = <<>> THEN <<"unknown">> ELSE upReq[u].device))
    /\ upId' = [upId EXCEPT ![u] = Len(media) + 1]
    /\ upPc' = [upPc EXCEPT ![u] = "enqueue"]
    /\ callJob' = [callJob EXCEPT ![u] = upFinal[u]]
    /\ callPc' = [callPc EXCEPT ![u] = "backup"]
    /\ UNCHANGED <<disk, dirs, upReq, upTmp, upFinal, upResp, before, notUpload>>
    /\ UNCHANGED <<mainPc, thumbnailQueue, backupQueue, chans, lazy, indexLeft,
                   lastBackup, lastThumb>>

\* after EnqueueBackup and EnqueueThumbnail: the JSON response
UploadRespond(u) ==
    /\ upPc[u] = "enqueue"
    /\ callPc[u] = "done"
    /\ upResp' = [upResp EXCEPT ![u] =
           [status |-> 200, error |-> "", skipped |-> FALSE,
            path |-> relAPIPath(DataDir, upFinal[u]), id |-> upId[u]]]
    /\ upPc' = [upPc EXCEPT ![u] = "done"]
    /\ callPc' = [callPc EXCEPT ![u] = "idle"]
    /\ UNCHANGED <<disk, dirs, media, upReq, upTmp, upFinal, upId, before, notUpload>>
    /\ UNCHANGED <<mainPc, thumbnailQueue, backupQueue, chans, lazy, indexLeft,
                   callJob, lastBackup, lastThumb>>

UpNext ==
    \/ \E u \in Callers : UploadWriteTmp(u)
    \/ \E u \in Callers : UploadCheckDuplicate(u)
    \/ \E u \in Callers : UploadChooseFinal(u)
    \/ \E u \in Callers : UploadMove(u)
    \/ \E u \in Callers : UploadInsert(u)
    \/ \E u \in Callers : EnqueueBackupCheck(u)
    \/ \E u \in Callers : EnqueueBackupSelect(u)
    \/ \E u \in Callers : EnqueueThumbnail(u)
    \/ \E u \in Callers : UploadRespond(u)
    \/ \E q \in DOMAIN chans : WorkerTake(q)

SpecUpload == UpInit /\ [][UpNext]_vars

\* ------------------------------------------------------------------ /api/file requests

Roots == { <<"/", "d">>, <<"/", "d", "/">>, <<"d">> }

PathAlphabet == {"/", ".", "d", "2"}
PathInputs == StringsUpTo(PathAlphabet, MaxPathLen)

RangeAlphabet == {"-", "+", "0", "1", "2", "3"}
RangePrefixes == { BytesEq, <<"b">>, <<>> }
RangeInputs == { pre \o spec : pre \in RangePrefixes, spec \in StringsUpTo(RangeAlphabet, MaxRangeLen) }

NoReply == Reply(0, <<>>, NoRange, 0, <<>>)

\* the requests a client sends: a path without a Range header, or a Range header
\* on the path of the stored file
PathRequests == { [path |-> q, range |-> <<>>] : q \in PathInputs }
RangeRequests == { [path |-> <<"/", "d">>, range |-> h] : h \in RangeInputs \ {<<>>} }

FileInit ==
    /\ DataDir \in Roots
    /\ \/ fileReq \in PathRequests /\ fileSize = 1
       \/ fileReq \in RangeRequests /\ fileSize \in 0..MaxSize
    /\ fileResp = NoReply
    /\ PoolQuiet
    /\ UpQuiet
    /\ WorkQuiet

\* GET /api/file?path=q without a Range header
FileRequest ==
    /\ fileResp = NoReply
    /\ fileReq.range = <<>>
    /\ fileResp' = FileHandler(DataDir, fileReq.path, fileReq.range, fileSize)
    /\ UNCHANGED <<DataDir, fileSize, fileReq, notFile>>

\* GET /api/file?path=/d with a Range header
RangeRequest ==
    /\ fileResp = NoReply
    /\ fileReq.range # <<>>
    /\ fileResp' = FileHandler(DataDir, fileReq.path, fileReq.range, fileSize)
    /\ UNCHANGED <<DataDir, fileSize, fileReq, notFile>>

FileNext == FileRequest \/ RangeRequest

SpecFile == FileInit /\ [][FileNext]_vars

\* ------------------------------------------------------------------ /api/file claims

Served == fileResp # NoReply

\* C3: whenever absClean(root, path) succeeds, the path it returns is the data
\* root or a descendant of it, compared element by element.
AbsCleanStaysInRoot ==
    Served /\ fileReq.range = <<>> =>
        LET r == absClean(DataDir, fileReq.path)
        IN  ~r.err => IsWithin(Abs(DataDir), r.path)

\* where a virtual path leads when it is read literally below the root
Resolved(root, p) == Abs(Join(root, TrimPrefix(p, <<Slash>>)))

\* C4: a virtual path with a ".." element that leads out of the root directory
\* is refused by absClean, and FileHandler answers 400 without opening anything.
DotDotRefused ==
    Served /\ fileReq.range = <<>>
           /\ HasDotDotElem(fileReq.path)
           /\ ~IsWithin(Abs(DataDir), Resolved(DataDir, fileReq.path)) =>
        /\ absClean(DataDir, fileReq.path).err
        /\ fileResp.status = 400
        /\ fileResp.opened = <<>>

\* C6: "bytes=a-b" with 0 <= a <= b < S is answered 206 with Content-Range
\* a-b/S, Content-Length b-a+1 and the bytes a..b; "bytes=-n" with 1 <= n <= S
\* is answered with the last n bytes, S-n..S-1.
RangeServed ==
    Served =>
        /\ \A a, b \in 0..(fileSize - 1) :
              a <= b /\ fileReq.range = BytesEq \o Itoa(a) \o <<"-">> \o Itoa(b) =>
                  /\ fileResp.status = 206
                  /\ fileResp.contentRange = [start |-> a, end |-> b, size |-> fileSize]
                  /\ fileResp.contentLength = b - a + 1
                  /\ fileResp.body = [i \in 1..(b - a + 1) |-> FileBytes(fileSize)[a + i]]
        /\ \A n \in 1..fileSize :
              fileReq.range = BytesEq \o <<"-">> \o Itoa(n) =>
                  /\ fileResp.status = 206
                  /\ fileResp.contentRange =
                         [start |-> fileSize - n, end |-> fileSize - 1, size |-> fileSize]
                  /\ fileResp.contentLength = n
                  /\ fileResp.body = [i \in 1..n |-> FileBytes(fileSize)[fileSize - n + i]]

\* a start-end range and a suffix range have both been served
RangeServedWitness ==
    /\ Served
    /\ fileSize = 3
    /\ fileReq.range = BytesEq \o <<"1", "-", "2">>
    /\ fileResp.status = 206
    /\ fileResp.body = <<1, 2>>

\* C7: a 206 response announces a non-empty range inside the file, that is,
\* parseRange returns an error or 0 <= start <= end < S.
RangeInsideFile ==
    Served /\ fileResp.status = 206 =>
        /\ 0 <= fileResp.contentRange.start
        /\ fileResp.contentRange.start <= fileResp.contentRange.end
        /\ fileResp.contentRange.end < fileResp.contentRange.size

\* ------------------------------------------------------------------ pool claims

QueuesBounded ==
    \A q \in DOMAIN chans : Len(chans[q].buf) <= CapOf(chans[q].pool)

SelectNeverBlocks ==
    \A c \in Callers :
        /\ callPc[c] = "select" => ENABLED EnqueueBackupSelect(c)
        /\ callPc[c] = "thumb" => ENABLED EnqueueThumbnail(c)

IsFull(q) == q # Nil /\ Len(chans[q].buf) = CapOf(chans[q].pool)

FullQueueDrops ==
    \A c \in Callers :
        /\ EnqueueBackupSelect(c) /\ IsFull(backupQueue) =>
               chans' = chans /\ lastBackup'[c].outcome = "dropped_full"
        /\ EnqueueThumbnail(c) /\ IsFull(thumbnailQueue) =>
               chans' = chans /\ lastThumb'[c] = "dropped_full"

\* C8: EnqueueThumbnail and EnqueueBackup never block: the select can always be
\* taken, a job sent to a full queue is discarded and leaves the queued jobs
\* unchanged, and no queue ever holds more jobs than its capacity.
EnqueueNeverBlocks ==
    /\ [](QueuesBounded /\ SelectNeverBlocks)
    /\ [][FullQueueDrops]_vars

\* a job has been discarded at a full backup queue and one at a full thumbnail queue
EnqueueDroppedWitness ==
    /\ IsFull(backupQueue)
    /\ IsFull(thumbnailQueue)
    /\ \E c \in Callers : lastBackup[c].outcome = "dropped_full"
    /\ \E c \in Callers : lastThumb[c] = "dropped_full"

ChansOf(pool) == { q \in DOMAIN chans : chans[q].pool = pool }

RECURSIVE WorkersOn(_)
WorkersOn(qs) ==
    IF qs = {} THEN 0
    ELSE LET q == CHOOSE x \in qs : TRUE
         IN  chans[q].workers + WorkersOn(qs \ {q})

FirstOf(qs) == CHOOSE q \in qs : \A x \in qs : q <= x

\* C9: after any number of start calls each pool has one queue, and as many
\* workers as the first start asked for.
StartIsIdempotent ==
    \A pool \in {"thumb", "backup"} :
        ChansOf(pool) # {} =>
            /\ Cardinality(ChansOf(pool)) = 1
            /\ WorkersOn(ChansOf(pool)) = chans[FirstOf(ChansOf(pool))].conc

\* C10: a job passed to EnqueueBackup while no backup pool was started is not
\* lost: it is placed on the queue of the pool that call starts.
LazyJobKept ==
    \A c \in Callers :
        lastBackup[c].sawNil /\ lastBackup[c].outcome # "none" =>
            lastBackup[c].outcome = "queued"

\* ------------------------------------------------------------------ upload claims

BackupDir == Join(DataDir, <<"backups">>)

\* the stored files that hold content b (replicas in the backup directory aside)
StoredCopies(b) == { p \in DOMAIN disk : disk[p] = b /\ ~IsWithin(BackupDir, p) }

RowsOf(b) == { i \in DOMAIN media : media[i].sha256 = Sha256Hex(b) }

Ended(u) == upPc[u] = "done"

ConcurrentUploadDeduplicated ==
    (\A u \in Callers : Ended(u)) =>
        \A b \in Contents :
            /\ Cardinality(RowsOf(b)) <= 1
            /\ Cardinality(StoredCopies(b)) <= 1

\* C5: every file written and every directory made by a request lies in the
\* data root.
WritesStayInDataRoot ==
    /\ \A p \in DOMAIN disk : IsWithin(DataDir, p)
    /\ \A p \in dirs : IsWithin(DataDir, p) \/ IsWithin(p, DataDir)

\* ------------------------------------------------------------------ background workers

WorkDeviceIDs == { <<"p">>, DotDot, <<".", ".", "/", "backups">> }
WorkFileNames == { <<"a", ".", "jpg">> }
ImageExts == { <<".", "jpg">>, <<".", "jpeg">>, <<".", "png">>, <<".", "webp">>,
               <<".", "bmp">>, <<".", "tiff">>, <<".", "gif">> }
WorkerMaxDim == 480              \* the size the worker asks for
DefaultWidth == 320              \* the size /api/thumbnail asks for without w

\* filepath.Dir
Dir(p) ==
    IF p = <<>> THEN Dot
    ELSE LET e == Elems(p)
             body == JoinStr(SubSeq(e, 1, Len(e) - 1), Slash)
         IN  IF IsAbs(p) THEN <<Slash>> \o body
             ELSE IF Len(e) <= 1 THEN Dot ELSE body

\* the directory thumbPathFor makes, and the path it returns
ThumbDir(root, abs) == JoinAll(<<root, <<".thumbs">>, Dir(Rel(root, abs))>>)

thumbPathFor(root, abs) ==
    LET base == Base(Rel(root, abs))
        ext == Ext(base)
        name == SubSeq(base, 1, Len(base) - Len(ext))
    IN  Join(ThumbDir(root, abs), name \o <<".", "jpg">>)

\* the bytes imaging.Save writes for a source of content b at size maxDim
ThumbBytes(b, maxDim) == <<"thumb", b, maxDim>>

\* generateThumbnail without the early return
generateThumbnailAlways(fs, directories, abs, dst, maxDim, decodeOk) ==
    IF abs \notin DOMAIN fs \/ ~decodeOk
    THEN [disk |-> fs, decoded |-> FALSE, err |-> TRUE]
    ELSE [disk |-> WriteFile(fs, dst, ThumbBytes(fs[abs], maxDim)),
          decoded |-> TRUE, err |-> FALSE]

\* generateThumbnail(abs, dst, maxDim): [disk, decoded, err]; decodeOk says whether
\* the source decodes (image.Decode, ffmpeg) and the artifact can be saved
generateThumbnail(fs, directories, abs, dst, maxDim, decodeOk) ==
    IF Exists(fs, directories, dst)
    THEN [disk |-> fs, decoded |-> FALSE, err |-> FALSE]
    ELSE IF Ext(abs) \in ImageExts
         THEN IF abs \notin DOMAIN fs \/ ~decodeOk
              THEN [disk |-> fs, decoded |-> FALSE, err |-> TRUE]
              ELSE [disk |-> WriteFile(fs, dst, ThumbBytes(fs[abs], maxDim)),
                    decoded |-> TRUE, err |-> FALSE]
         ELSE IF ~decodeOk
              THEN [disk |-> fs, decoded |-> FALSE, err |-> TRUE]
              ELSE [disk |-> WriteFile(fs, dst, ThumbBytes("blank", maxDim)),
                    decoded |-> TRUE, err |-> FALSE]

\* a worker whose job failed ends its goroutine
WorkerExitsOnError(c, err) == IF err THEN [c EXCEPT !.workers = @ - 1] ELSE c

\* `for job := range queue { ... }`: the error of a job is logged, the loop goes on
WorkerLoop(c, err) == c

\* CopyFile(src, dst) that succeeds: the bytes of src under dst
CopyFile(fs, src, dst) == WriteFile(fs, dst, fs[src])

\* an update that leaves backup_at as it was
MarkWithoutStamp(rows, id, dest, at) ==
    [i \in DOMAIN rows |->
        IF i = id THEN [rows[i] EXCEPT !.backed_up = 1, !.backup_path = dest] ELSE rows[i]]

\* UPDATE media SET backed_up = 1, backup_path = ?, backup_at = ? WHERE id = ?
MarkBackedUp(rows, id, dest, at) ==
    [i \in DOMAIN rows |->
        IF i = id THEN [rows[i] EXCEPT !.backed_up = 1, !.backup_path = dest, !.backup_at = at]
        ELSE rows[i]]

\* the backup directory main hands to StartBackupWorker, and the mirror of abs in it
BackupDirOf(root) == Join(root, <<"backups">>)
BackupDest(root, abs) == Join(BackupDirOf(root), Rel(root, abs))

\* both Enqueue calls of SyncUploadHandler, one after the other
EnqueueBoth(path, id) ==
    LET afterBackup == IF backupQueue = Nil THEN chans
                       ELSE [chans EXCEPT ![backupQueue].buf =
                               SelectSend(@, [absPath |-> path, mediaID |-> id], BackupQueueCap)]
    IN  IF thumbnailQueue = Nil THEN afterBackup
        ELSE [afterBackup EXCEPT ![thumbnailQueue].buf = SelectSend(@, path, ThumbnailQueueCap)]

WorkInit ==
    /\ FileQuiet
    /\ UpQuiet
    /\ WorkQuiet
    /\ mainPc = "listen"
    /\ chans = <<NewChan("thumb", MainConcurrency), NewChan("backup", MainConcurrency)>>
    /\ thumbnailQueue = 1
    /\ backupQueue = 2
    /\ lazy = [spawned |-> 0, check |-> 0, make |-> 0]
    /\ indexLeft = 0
    /\ callPc = [c \in Callers |-> "idle"]
    /\ callJob = [c \in Callers |-> <<>>]
    /\ lastBackup = [c \in Callers |-> NoCall]
    /\ lastThumb = [c \in Callers |-> "none"]

\* SyncUploadHandler from the request to the response, run without interruption
SyncUploadHandler(u) ==
    /\ upPc[u] = "new"
    /\ \E content \in Contents, filename \in WorkFileNames, device \in WorkDeviceIDs :
          LET deviceDir == DeviceDir(DataDir, device)
              tmpPath == Join(deviceDir, TmpName(u, filename))
              withTmp == WriteFile(disk, tmpPath, content)
              madeDirs == dirs \cup MkdirAll(deviceDir)
              found == DuplicateRows(media, Sha256Hex(content))
              finalPath == ChooseFinalPath(withTmp, madeDirs, deviceDir, filename)
          IN  /\ upReq' = [upReq EXCEPT ![u] =
                     [content |-> content, filename |-> filename, device |-> device]]
              /\ dirs' = madeDirs
              /\ IF found # {}
                 THEN \E i \in found :
                         /\ upResp' = [upResp EXCEPT ![u] =
                                [status |-> 200, error |-> "", skipped |-> TRUE,
                                 path |-> media[i].filepath, id |-> 0]]
                         /\ UNCHANGED <<disk, media, chans, upFinal, upId>>
                 ELSE /\ disk' = RenameFile(withTmp, tmpPath, finalPath)
                      /\ media' = Append(media,
                             MediaRow(Base(finalPath), finalPath, Sha256Hex(content), device))
                      /\ upFinal' = [upFinal EXCEPT ![u] = finalPath]
                      /\ upId' = [upId EXCEPT ![u] = Len(media) + 1]
                      /\ chans' = EnqueueBoth(finalPath, Len(media) + 1)
                      /\ upResp' = [upResp EXCEPT ![u] =
                             [status |-> 200, error |-> "", skipped |-> FALSE,
                              path |-> relAPIPath(DataDir, finalPath), id |-> Len(media) + 1]]
    /\ upPc' = [upPc EXCEPT ![u] = "done"]
    /\ UNCHANGED <<upTmp, before, fileVars, workVars, queryVars>>
    /\ UNCHANGED <<mainPc, thumbnailQueue, backupQueue, lazy, indexLeft, callPc, callJob,
                   lastBackup, lastThumb>>

\* DeleteHandler: DELETE /api/delete/{filename}
DeleteHandler(filename) ==
    LET path == Join(DataDir, Base(filename))
    IN  /\ path \in DOMAIN disk
        /\ disk' = RemoveFile(disk, path)
        /\ filesTable' = SelectSeq(filesTable, LAMBDA r : r.filename # filename)
        /\ UNCHANGED <<dirs, media, work, now, copied, decoded, thumbLast, poolVars, notWork>>

\* a backup worker receives a job; of the idle workers, all alike, the first
BackupTake(w) ==
    /\ backupQueue # Nil
    /\ w <= chans[backupQueue].workers
    /\ work[w].pc = "idle"
    /\ \A v \in 1..(w - 1) : work[v].pc # "idle"
    /\ chans[backupQueue].buf # <<>>
    /\ work' = [work EXCEPT ![w] = [pc |-> "check", job |-> Head(chans[backupQueue].buf),
                                    dest |-> <<>>, outcome |-> "none",
                                    fd |-> "closed", bytes |-> ""]]
    /\ chans' = [chans EXCEPT ![backupQueue].buf = Tail(@)]
    /\ UNCHANGED <<disk, dirs, media, filesTable, now, copied, decoded, thumbLast, notWork>>
    /\ UNCHANGED <<mainPc, thumbnailQueue, backupQueue, lazy, indexLeft, callPc, callJob,
                   lastBackup, lastThumb>>

\* processBackup up to CopyFile: the source, the destination directory, and the
\* update of the record when the destination is there already
BackupCheck(w) ==
    /\ work[w].pc = "check"
    /\ LET abs == work[w].job.absPath
           dest == BackupDest(DataDir, abs)
       IN  \E mkdirOk \in BOOLEAN, dbOk \in BOOLEAN :
             IF abs \notin DOMAIN disk /\ abs \notin dirs
             THEN /\ work' = [work EXCEPT ![w] = IdleAfter("source missing")]
                  /\ chans' = [chans EXCEPT ![backupQueue] = WorkerLoop(@, TRUE)]
                  /\ UNCHANGED <<dirs, media, now>>
             ELSE IF ~mkdirOk
             THEN /\ work' = [work EXCEPT ![w] = IdleAfter("mkdir err")]
                  /\ chans' = [chans EXCEPT ![backupQueue] = WorkerLoop(@, TRUE)]
                  /\ UNCHANGED <<dirs, media, now>>
             ELSE IF Exists(disk, dirs \cup MkdirAll(Dir(dest)), dest)
             THEN /\ dirs' = dirs \cup MkdirAll(Dir(dest))
                  /\ now' = now + 1
                  /\ media' = IF dbOk /\ work[w].job.mediaID \in DOMAIN media
                              THEN MarkBackedUp(media, work[w].job.mediaID, dest, now + 1)
                              ELSE media
                  /\ work' = [work EXCEPT ![w] =
                         IdleAfter(IF dbOk THEN "marked" ELSE "db update err")]
                  /\ chans' = [chans EXCEPT ![backupQueue] = WorkerLoop(@, ~dbOk)]
             ELSE /\ dirs' = dirs \cup MkdirAll(Dir(dest))
                  /\ work' = [work EXCEPT ![w].pc = "copy", ![w].dest = dest]
                  /\ UNCHANGED <<media, now, chans>>
    /\ UNCHANGED <<disk, filesTable, copied, decoded, thumbLast, notWork>>
    /\ UNCHANGED <<mainPc, thumbnailQueue, backupQueue, lazy, indexLeft, callPc, callJob,
                   lastBackup, lastThumb>>

\* storage.CopyFile(abs, dest): the bytes under dest, or an error and no file
BackupCopy(w) ==
    /\ work[w].pc = "copy"
    /\ LET abs == work[w].job.absPath
           dest == work[w].dest
       IN  \E copyOk \in BOOLEAN :
             IF abs \in DOMAIN disk /\ dest \notin dirs /\ copyOk
             THEN /\ disk' = CopyFile(disk, abs, dest)
                  /\ copied' = copied \cup {dest}
                  /\ work' = [work EXCEPT ![w].pc = "update"]
                  /\ UNCHANGED chans
             ELSE /\ work' = [work EXCEPT ![w] = IdleAfter("copy err")]
                  /\ chans' = [chans EXCEPT ![backupQueue] = WorkerLoop(@, TRUE)]
                  /\ UNCHANGED <<disk, copied>>
    /\ UNCHANGED <<dirs, media, filesTable, now, decoded, thumbLast, notWork>>
    /\ UNCHANGED <<mainPc, thumbnailQueue, backupQueue, lazy, indexLeft, callPc, callJob,
                   lastBackup, lastThumb>>

\* processBackup after CopyFile: the update of the record
BackupUpdate(w) ==
    /\ work[w].pc = "update"
    /\ \E dbOk \in BOOLEAN :
          /\ media' = IF dbOk /\ work[w].job.mediaID \in DOMAIN media
                      THEN MarkBackedUp(media, work[w].job.mediaID, work[w].dest, now + 1)
                      ELSE media
          /\ chans' = [chans EXCEPT ![backupQueue] = WorkerLoop(@, ~dbOk)]
          /\ work' = [work EXCEPT ![w] =
                 IdleAfter(IF dbOk THEN "copied and marked" ELSE "db update err")]
    /\ now' = now + 1
    /\ UNCHANGED <<disk, dirs, filesTable, copied, decoded, thumbLast, notWork>>
    /\ UNCHANGED <<mainPc, thumbnailQueue, backupQueue, lazy, indexLeft, callPc, callJob,
                   lastBackup, lastThumb>>

\* CopyFile step by step, as two workers run it side by side. A worker writes
\* through its descriptor `out`: fd tells where the file it opened is now, under
\* tmp, under dst after a rename by another worker, or unlinked.
TmpOf(dst) == dst \o <<".tmp">>

\* the file os.Create leaves: created, or truncated when it is there
Truncated == ""

\* the descriptors of the other workers after os.Rename(TmpOf(dst), dst) by w
AfterRename(ws, w, dst) ==
    [v \in DOMAIN ws |->
        IF v = w \/ ws[v].dest # dst THEN ws[v]
        ELSE IF ws[v].fd = "tmp" THEN [ws[v] EXCEPT !.fd = "dst"]
        ELSE IF ws[v].fd = "dst" THEN [ws[v] EXCEPT !.fd = "unlinked"]
        ELSE ws[v]]

\* CopyFile up to os.Create(tmp): os.Open(src), MkdirAll, tmp created or truncated
BackupCopyCreate(w) ==
    /\ work[w].pc = "copy"
    /\ LET abs == work[w].job.absPath
           tmp == TmpOf(work[w].dest)
       IN  IF abs \in DOMAIN disk /\ tmp \notin dirs
           THEN /\ disk' = WriteFile(disk, tmp, Truncated)
                /\ work' = [work EXCEPT ![w].pc = "write", ![w].fd = "tmp",
                                        ![w].bytes = disk[abs]]
                /\ UNCHANGED chans
           ELSE /\ work' = [work EXCEPT ![w] = IdleAfter("copy err")]
                /\ chans' = [chans EXCEPT ![backupQueue] = WorkerLoop(@, TRUE)]
                /\ UNCHANGED disk
    /\ UNCHANGED <<dirs, media, filesTable, now, copied, decoded, thumbLast, notWork>>
    /\ UNCHANGED <<mainPc, thumbnailQueue, backupQueue, lazy, indexLeft, callPc, callJob,
                   lastBackup, lastThumb>>

\* io.Copy(out, in), out.Sync(), out.Close(): the bytes go to the file out names
BackupCopyWrite(w) ==
    /\ work[w].pc = "write"
    /\ disk' = IF work[w].fd = "tmp" THEN WriteFile(disk, TmpOf(work[w].dest), work[w].bytes)
               ELSE IF work[w].fd = "dst" THEN WriteFile(disk, work[w].dest, work[w].bytes)
               ELSE disk
    /\ work' = [work EXCEPT ![w].pc = "rename", ![w].fd = "closed"]
    /\ UNCHANGED <<dirs, media, filesTable, now, copied, decoded, thumbLast, notWork>>
    /\ UNCHANGED <<chans, mainPc, thumbnailQueue, backupQueue, lazy, indexLeft, callPc,
                   callJob, lastBackup, lastThumb>>

\* os.Rename(tmp, dst), and os.Remove(tmp) with the error when it fails
BackupCopyRename(w) ==
    /\ work[w].pc = "rename"
    /\ LET dst == work[w].dest
           tmp == TmpOf(dst)
       IN  IF tmp \in DOMAIN disk /\ dst \notin dirs
           THEN /\ disk' = RenameFile(disk, tmp, dst)
                /\ copied' = copied \cup {dst}
                /\ work' = [AfterRename(work, w, dst) EXCEPT ![w].pc = "update"]
                /\ UNCHANGED chans
           ELSE /\ disk' = RemoveFile(disk, tmp)
                /\ work' = [work EXCEPT ![w] = IdleAfter("copy err")]
                /\ chans' = [chans EXCEPT ![backupQueue] = WorkerLoop(@, TRUE)]
                /\ UNCHANGED copied
    /\ UNCHANGED <<dirs, media, filesTable, now, decoded, thumbLast, notWork>>
    /\ UNCHANGED <<mainPc, thumbnailQueue, backupQueue, lazy, indexLeft, callPc, callJob,
                   lastBackup, lastThumb>>

\* a thumbnail worker receives a path and runs generateThumbnail(p, dst, 480)
ThumbnailWorker ==
    /\ thumbnailQueue # Nil
    /\ chans[thumbnailQueue].workers > 0
    /\ chans[thumbnailQueue].buf # <<>>
    /\ LET p == Head(chans[thumbnailQueue].buf)
           dst == thumbPathFor(DataDir, p)
           madeDirs == dirs \cup MkdirAll(ThumbDir(DataDir, p))
       IN  \E decodeOk \in BOOLEAN :
             LET r == generateThumbnail(disk, madeDirs, p, dst, WorkerMaxDim, decodeOk)
             IN  /\ dirs' = madeDirs
                 /\ disk' = r.disk
                 /\ decoded' = IF r.decoded THEN decoded \cup {<<p, dst>>} ELSE decoded
                 /\ chans' = [chans EXCEPT ![thumbnailQueue] =
                                 WorkerLoop([@ EXCEPT !.buf = Tail(@)], r.err)]
                 /\ thumbLast' = [by |-> "worker", src |-> p, dst |-> dst,
                                  existed |-> Exists(disk, madeDirs, dst), err |-> r.err,
                                  status |-> 0]
    /\ UNCHANGED <<media, filesTable, work, now, copied, notWork>>
    /\ UNCHANGED <<mainPc, thumbnailQueue, backupQueue, lazy, indexLeft, callPc, callJob,
                   lastBackup, lastThumb>>

\* ThumbnailHandler: GET /api/thumbnail?path=q
ThumbnailHandler(q) ==
    LET abs == absClean(DataDir, q)
    IN  /\ IF abs.err
           THEN /\ thumbLast' = [NoThumb EXCEPT !.by = "handler", !.status = 400]
                /\ UNCHANGED <<disk, dirs, decoded>>
           ELSE LET dst == thumbPathFor(DataDir, abs.path)
                    madeDirs == dirs \cup MkdirAll(ThumbDir(DataDir, abs.path))
                IN  \E decodeOk \in BOOLEAN :
                      LET r == generateThumbnail(disk, madeDirs, abs.path, dst,
                                                 DefaultWidth, decodeOk)
                      IN  /\ dirs' = madeDirs
                          /\ disk' = r.disk
                          /\ decoded' = IF r.decoded THEN decoded \cup {<<abs.path, dst>>}
                                        ELSE decoded
                          /\ thumbLast' =
                                 [by |-> "handler", src |-> abs.path, dst |-> dst,
                                  existed |-> Exists(disk, madeDirs, dst), err |-> r.err,
                                  status |-> IF Exists(r.disk, madeDirs, dst)
                                             THEN 200 ELSE 404]
        /\ UNCHANGED <<media, filesTable, work, now, copied, poolVars, notWork>>

\* the paths a client asks thumbnails of: those the uploads were answered with
ThumbRequests == { upResp[u].path : u \in { v \in Callers : upResp[v].status = 200 } }

\* uploads, deletions and the backup workers; the thumbnail workers are not
\* scheduled
BackupNext ==
    \/ \E u \in Callers : SyncUploadHandler(u)
    \/ \E f \in WorkFileNames : DeleteHandler(f)
    \/ \E w \in 1..MainConcurrency : BackupTake(w)
    \/ \E w \in 1..MainConcurrency : BackupCheck(w)
    \/ \E w \in 1..MainConcurrency : BackupCopy(w)
    \/ \E w \in 1..MainConcurrency : BackupUpdate(w)

SpecBackup == WorkInit /\ [][BackupNext]_vars

\* uploads, the thumbnail workers and /api/thumbnail; the backup workers are not
\* scheduled
ThumbNext ==
    \/ \E u \in Callers : SyncUploadHandler(u)
    \/ ThumbnailWorker
    \/ \E q \in ThumbRequests : ThumbnailHandler(q)

SpecThumb == WorkInit /\ [][ThumbNext]_vars

\* one upload and the workers of both pools
WorkNext ==
    \/ SyncUploadHandler("r1")
    \/ \E f \in WorkFileNames : DeleteHandler(f)
    \/ \E w \in 1..MainConcurrency : BackupTake(w)
    \/ \E w \in 1..MainConcurrency : BackupCheck(w)
    \/ \E w \in 1..MainConcurrency : BackupCopy(w)
    \/ \E w \in 1..MainConcurrency : BackupUpdate(w)
    \/ ThumbnailWorker

SpecWork == WorkInit /\ [][WorkNext]_vars

\* uploads, deletions and the backup workers with CopyFile run step by step
CopyNext ==
    \/ \E u \in Callers : SyncUploadHandler(u)
    \/ \E f \in WorkFileNames : DeleteHandler(f)
    \/ \E w \in 1..MainConcurrency : BackupTake(w)
    \/ \E w \in 1..MainConcurrency : BackupCheck(w)
    \/ \E w \in 1..MainConcurrency : BackupCopyCreate(w)
    \/ \E w \in 1..MainConcurrency : BackupCopyWrite(w)
    \/ \E w \in 1..MainConcurrency : BackupCopyRename(w)
    \/ \E w \in 1..MainConcurrency : BackupUpdate(w)

SpecCopy == WorkInit /\ [][CopyNext]_vars

\* CopyFile(src, dst) that fails after os.Create: dst + ".tmp" made, then removed
CopyFileFails(fs, src, dst) ==
    RemoveFile(WriteFile(fs, TmpOf(dst), Truncated), TmpOf(dst))

\* SyncUploadHandler when io.Copy to the temporary file fails: the file is closed
\* and removed, the answer is 500
UploadWriteFails(u) ==
    /\ upPc[u] = "new"
    /\ \E content \in Contents, filename \in FileNames, device \in DeviceIDs :
          LET deviceDir == DeviceDir(DataDir, device)
              tmpPath == Join(deviceDir, TmpName(u, filename))
          IN  /\ upReq' = [upReq EXCEPT ![u] =
                     [content |-> content, filename |-> filename, device |-> device]]
              /\ dirs' = dirs \cup MkdirAll(deviceDir)
              /\ disk' = RemoveFile(WriteFile(disk, tmpPath, Truncated), tmpPath)
              /\ upTmp' = [upTmp EXCEPT ![u] = tmpPath]
    /\ before' = [before EXCEPT ![u] = { v \in Callers : upPc[v] = "done" }]
    /\ upResp' = [upResp EXCEPT ![u] = [status |-> 500, error |-> "save error",
                                        skipped |-> FALSE, path |-> <<>>, id |-> 0]]
    /\ upPc' = [upPc EXCEPT ![u] = "done"]
    /\ UNCHANGED <<media, upFinal, upId, poolVars, notUpload>>

\* the move when os.Rename fails: storage.CopyFile, then os.Remove(tmpPath); when
\* the copy fails too the answer is 500
UploadMoveFallback(u) ==
    /\ upPc[u] = "move"
    /\ \E copyOk \in BOOLEAN :
          IF copyOk /\ upTmp[u] \in DOMAIN disk
          THEN /\ disk' = RemoveFile(CopyFile(disk, upTmp[u], upFinal[u]), upTmp[u])
               /\ upPc' = [upPc EXCEPT ![u] = "insert"]
               /\ UNCHANGED upResp
          ELSE /\ disk' = RemoveFile(CopyFileFails(disk, upTmp[u], upFinal[u]), upTmp[u])
               /\ upResp' = [upResp EXCEPT ![u] = [status |-> 500, error |-> "move error",
                                                   skipped |-> FALSE, path |-> <<>>, id |-> 0]]
               /\ upPc' = [upPc EXCEPT ![u] = "done"]
    /\ UNCHANGED <<dirs, media, upReq, upTmp, upFinal, upId, before, poolVars, notUpload>>

\* the upload with the failures of its writes and moves
CleanupNext ==
    \/ UpNext
    \/ \E u \in Callers : UploadWriteFails(u)
    \/ \E u \in Callers : UploadMoveFallback(u)

SpecCleanup == UpInit /\ [][CleanupNext]_vars

\* ------------------------------------------------------------------ backup claims

BackupWorkers == 1..MainConcurrency

\* the mirrored destination of the job worker w holds
JobDest(w) == BackupDest(DataDir, work[w].job.absPath)

Stamps == { media[i].backup_at : i \in DOMAIN media }

\* worker w is about to process a job whose record is not backed up, whose source
\* is on disk and whose destination is on disk already
DestAlreadyThere(w) ==
    /\ work[w].pc = "check"
    /\ work[w].job.absPath \in DOMAIN disk
    /\ work[w].job.mediaID \in DOMAIN media
    /\ media[work[w].job.mediaID].backed_up = 0
    /\ Exists(disk, dirs, JobDest(w))

\* the record of the job of w after the step: backed up at the destination, with a
\* timestamp later than every timestamp of the table
MarkedFresh(w) ==
    LET row == media'[work[w].job.mediaID]
    IN  /\ row.backed_up = 1
        /\ row.backup_path = JobDest(w)
        /\ \A t \in Stamps : row.backup_at > t

ConvergesStep(w) ==
    DestAlreadyThere(w) /\ BackupCheck(w) =>
        /\ disk' = disk
        /\ copied' = copied
        /\ work'[w].pc = "idle"
        /\ work'[w].outcome \in {"marked", "mkdir err", "db update err"}
        /\ work'[w].outcome = "marked" => MarkedFresh(w)

\* C11: when the backup worker processes a record with backed_up=0 whose mirrored
\* destination exists on disk, it copies no bytes and, unless making the directory
\* or the update itself fails, sets backed_up=1, backup_path to the destination and
\* backup_at to a fresh timestamp.
BackupConverges == [][\A w \in BackupWorkers : ConvergesStep(w)]_vars

\* a record was marked backed up at a destination that CopyFile never wrote
BackupConvergesWitness ==
    \E w \in BackupWorkers :
        /\ work[w].outcome = "marked"
        /\ \E i \in DOMAIN media :
              /\ media[i].backed_up = 1
              /\ media[i].backup_path \notin copied
              /\ media[i].backup_at = now

\* backed_up=1 exactly when backup_path and backup_at are set
ColumnsTogether ==
    \A i \in DOMAIN media :
        /\ media[i].backed_up = 1 <=> media[i].backup_path # <<>>
        /\ media[i].backed_up = 1 <=> media[i].backup_at # 0

\* when a record becomes backed up, backup_path is a file holding the bytes the
\* record was stored with or the bytes now under its filepath
CopyPresent ==
    \A i \in DOMAIN media :
        media[i].backed_up = 0 /\ media'[i].backed_up = 1 =>
            LET p == media'[i].backup_path
                src == media[i].filepath
            IN  /\ p \in DOMAIN disk'
                /\ \/ Sha256Hex(disk'[p]) = media[i].sha256
                   \/ src \in DOMAIN disk' /\ disk'[p] = disk'[src]

\* a job that ends with a missing source, a failed mkdir or a failed copy leaves
\* the table as it was
FailureKeepsRecord ==
    \A w \in BackupWorkers :
        /\ work[w].pc # "idle"
        /\ work'[w].outcome \in {"source missing", "mkdir err", "copy err"}
        => media' = media

\* C12: backed_up=1 exactly when backup_path and backup_at are set, the three
\* change in one update, that update follows a complete copy of the file being
\* present at backup_path, and a failed job leaves the record unchanged.
BackupOnlyAfterCopy ==
    /\ []ColumnsTogether
    /\ [][CopyPresent]_vars
    /\ [][FailureKeepsRecord]_vars

\* ------------------------------------------------------------------ thumbnail claims

\* the artifact of source abs is on disk
ArtifactThere(abs) == Exists(disk, dirs, thumbPathFor(DataDir, abs))

WorkerSecondCall ==
    /\ thumbnailQueue # Nil
    /\ chans[thumbnailQueue].buf # <<>>
    /\ ArtifactThere(Head(chans[thumbnailQueue].buf))
    /\ ThumbnailWorker

HandlerSecondCall(q) ==
    /\ ~absClean(DataDir, q).err
    /\ ArtifactThere(absClean(DataDir, q).path)
    /\ ThumbnailHandler(q)

NothingGenerated ==
    /\ disk' = disk
    /\ decoded' = decoded
    /\ ~thumbLast'.err

\* C13: a generateThumbnail call for a source whose artifact exists, made by a
\* thumbnail worker or by /api/thumbnail, decodes nothing and leaves every file,
\* the artifact included, as it was.
ThumbnailIdempotent ==
    [][/\ WorkerSecondCall => NothingGenerated
       /\ \A q \in ThumbRequests : HandlerSecondCall(q) => NothingGenerated]_vars

\* /api/thumbnail was asked for a source whose artifact a worker had generated,
\* and served it
ThumbnailIdempotentWitness ==
    /\ thumbLast.by = "handler"
    /\ thumbLast.existed
    /\ thumbLast.status = 200
    /\ <<thumbLast.src, thumbLast.dst>> \in decoded
    /\ thumbLast.dst \in DOMAIN disk
    /\ disk[thumbLast.dst] = ThumbBytes(disk[thumbLast.src], WorkerMaxDim)

\* ------------------------------------------------------------------ worker failure claims

JobFailures == {"source missing", "mkdir err", "copy err", "db update err"}

WorkerStep ==
    \/ ThumbnailWorker
    \/ \E w \in BackupWorkers : BackupTake(w) \/ BackupCheck(w) \/ BackupCopy(w) \/ BackupUpdate(w)

\* no pool loses a worker
WorkersStay ==
    /\ DOMAIN chans' = DOMAIN chans
    /\ \A q \in DOMAIN chans : chans'[q].workers >= chans[q].workers

\* a backup worker whose job has just ended, failed or not, is at the receive of
\* its loop again
BackToReceive ==
    \A w \in BackupWorkers :
        work[w].pc # "idle" /\ work'[w].outcome # "none" => work'[w].pc = "idle"

\* C19: a job that fails in a thumbnail or backup worker is dropped: no step of a
\* worker changes the response a request was given, the worker is back at the
\* receive of its loop, and no pool ever has fewer live workers than before.
WorkerFailureContained ==
    [][/\ WorkersStay
       /\ BackToReceive
       /\ WorkerStep => upResp' = upResp]_vars

\* a thumbnail job and a backup job have failed after an upload was answered, and
\* both pools have the workers they were started with
WorkerFailureWitness ==
    /\ upResp["r1"].status = 200
    /\ thumbLast.by = "worker" /\ thumbLast.err
    /\ \E w \in BackupWorkers : work[w].outcome \in JobFailures
    /\ \A q \in DOMAIN chans : chans[q].workers = chans[q].conc

\* ------------------------------------------------------------------ files table and search

SunsetJpg == <<"s", "u", "n", "s", "e", "t", ".", "j", "p", "g">>
SunsetBeachJpg == <<"s", "u", "n", "s", "e", "t", "_", "b", "e", "a", "c", "h", ".", "j", "p", "g">>

\* the names clients upload, and the (lexical) order WalkDir visits them in
UploadNames == { SunsetJpg, SunsetBeachJpg }
WalkOrder == <<SunsetJpg, SunsetBeachJpg>>

\* the text SQLite's CURRENT_TIMESTAMP stores at second t of the day:
\* "YYYY-MM-DD HH:MM:SS"
CurrentTimestamp(t) == <<"date", " ", t>>

\* time.Now().UTC().Format(time.RFC3339) at second t of the day:
\* "YYYY-MM-DDTHH:MM:SSZ"
RFC3339(t) == <<"date", "T", t, "Z">>

\* the instant a stored timestamp stands for
Instant(stamp) == stamp[3]

\* the byte of the character after the date
ByteOf(c) == IF c = " " THEN 32 ELSE 84

\* a < b as SQLite compares two stored texts (memcmp): the dates are the same, the
\* first byte that can differ is the one after the date, then the time of day
TextLess(a, b) ==
    \/ ByteOf(a[2]) < ByteOf(b[2])
    \/ a[2] = b[2] /\ a[3] < b[3]

\* mime.TypeByExtension, with the fallback of the callers
MimeByExt(ext) ==
    IF ext \in {<<".", "j", "p", "g">>, <<".", "j", "p", "e", "g">>} THEN "image/jpeg"
    ELSE "application/octet-stream"

\* a row of the files table; camera_model and exif_datetime stay NULL
FileRow(filename, filepath, mimeType, uploadedAt) ==
    [filename |-> filename, filepath |-> filepath, mime |-> mimeType,
     uploaded_at |-> uploadedAt]

\* INSERT OR IGNORE INTO files under UNIQUE(filepath)
InsertOrIgnore(rows, row) ==
    IF \E i \in DOMAIN rows : rows[i].filepath = row.filepath THEN rows
    ELSE Append(rows, row)

\* UPDATE files SET mime = ?, uploaded_at = ? WHERE filepath = ?
UpdateByPath(rows, filepath, mimeType, uploadedAt) ==
    [i \in DOMAIN rows |->
        IF rows[i].filepath = filepath
        THEN [rows[i] EXCEPT !.mime = mimeType, !.uploaded_at = uploadedAt]
        ELSE rows[i]]

\* a path element that begins with a dot
HasHiddenElem(rel) == \E i \in DOMAIN Split(rel, Slash) : HasPrefix(Split(rel, Slash)[i], Dot)

\* the api path IndexDataDirSync records for the file abs
IndexApiPath(root, abs) == <<Slash>> \o Rel(Abs(root), abs)

\* the WalkDir callback of IndexDataDirSync for one regular file, at second t
IndexOne(rows, root, abs, t) ==
    LET apiPath == IndexApiPath(root, abs)
        mt == MimeByExt(Ext(Base(abs)))
    IN  IF HasHiddenElem(Rel(Abs(root), abs)) THEN rows
        ELSE UpdateByPath(InsertOrIgnore(rows, FileRow(Base(abs), apiPath, mt, RFC3339(t))),
                          apiPath, mt, RFC3339(t))

\* the files WalkDir finds below the data directory, in the order it visits them
Walked(files, root) ==
    LET found == SelectSeq(WalkOrder, LAMBDA n : Join(Abs(root), n) \in DOMAIN files)
    IN  [i \in DOMAIN found |-> Join(Abs(root), found[i])]

RECURSIVE IndexWalk(_, _, _, _, _)
IndexWalk(rows, root, paths, i, t) ==
    IF i > Len(paths) THEN rows
    ELSE IndexWalk(IndexOne(rows, root, paths[i], t), root, paths, i + 1, t)

\* the thumbnail jobs main enqueues for the processed api paths
RECURSIVE EnqueueProcessed(_, _, _, _)
EnqueueProcessed(cs, root, paths, i) ==
    IF i > Len(paths) \/ thumbnailQueue = Nil THEN cs
    ELSE EnqueueProcessed(
            [cs EXCEPT ![thumbnailQueue].buf =
                SelectSend(@, Join(root, TrimPrefix(IndexApiPath(root, paths[i]), <<Slash>>)),
                           ThumbnailQueueCap)],
            root, paths, i + 1)

\* ---- the query

Space == " "
Quote == "'"

\* strings.TrimSpace
RECURSIVE TrimSpace(_)
TrimSpace(s) ==
    IF s = <<>> THEN s
    ELSE IF s[1] = Space THEN TrimSpace(Tail(s))
    ELSE IF s[Len(s)] = Space THEN TrimSpace(SubSeq(s, 1, Len(s) - 1))
    ELSE s

TokenSeparators == {" ", ",", ";", ":", "-", "_", "."}

RECURSIVE FieldsFrom(_, _, _, _)
FieldsFrom(s, i, cur, acc) ==
    IF i > Len(s) THEN (IF cur = <<>> THEN acc ELSE Append(acc, cur))
    ELSE IF s[i] \in TokenSeparators
         THEN FieldsFrom(s, i + 1, <<>>, IF cur = <<>> THEN acc ELSE Append(acc, cur))
    ELSE FieldsFrom(s, i + 1, Append(cur, s[i]), acc)

\* tokenize: the fields between separators that have two characters or more
tokenize(q) == SelectSeq(FieldsFrom(q, 1, <<>>, <<>>), LAMBDA p : Len(p) >= 2)

RECURSIVE escapeSQLLike(_)
escapeSQLLike(s) ==
    IF s = <<>> THEN <<>>
    ELSE IF s[1] \in {"%", "_"} THEN <<"\\", s[1]>> \o escapeSQLLike(Tail(s))
    ELSE <<s[1]>> \o escapeSQLLike(Tail(s))

\* SQLite reading the string literal that begins with the quote before text[i]:
\* a doubled quote is one quote of the value, a single one ends the literal, and
\* the statement is well formed only if the literal ends where the code meant it to
RECURSIVE SqlStringFrom(_, _, _)
SqlStringFrom(text, i, acc) ==
    IF i > Len(text) THEN [ok |-> FALSE, value |-> acc]
    ELSE IF text[i] # Quote THEN SqlStringFrom(text, i + 1, Append(acc, text[i]))
    ELSE IF i < Len(text) /\ text[i + 1] = Quote
         THEN SqlStringFrom(text, i + 2, Append(acc, Quote))
    ELSE [ok |-> i = Len(text), value |-> acc]

\* the literal fmt.Sprintf("'%s%%'") or ("'%%%s%%'") puts into the score expression
SqlLiteral(prefix, tok) ==
    SqlStringFrom(<<Quote>> \o prefix \o escapeSQLLike(tok) \o <<"%", Quote>>, 2, <<>>)

\* s LIKE pat in SQLite: % is any run of characters, _ any one character
RECURSIVE LikeFrom(_, _, _, _)
LikeFrom(pat, s, i, j) ==
    IF i > Len(pat) THEN j > Len(s)
    ELSE IF pat[i] = "%" THEN \E k \in j..(Len(s) + 1) : LikeFrom(pat, s, i + 1, k)
    ELSE /\ j <= Len(s)
         /\ pat[i] = "_" \/ pat[i] = s[j]
         /\ LikeFrom(pat, s, i + 1, j + 1)

Like(s, pat) == LikeFrom(pat, s, 1, 1)

Contains(tok) == <<"%">> \o tok \o <<"%">>

Min(a, b) == IF a < b THEN a ELSE b

DefaultLimit == 100
MaxLimit == 1000

\* limit: strconv.Atoi(v), taken when it is in 1..1000
LimitOf(v) ==
    IF v # <<>> /\ ~ParseInt(v).err /\ ParseInt(v).val > 0 /\ ParseInt(v).val <= MaxLimit
    THEN ParseInt(v).val ELSE DefaultLimit

\* offset: strconv.Atoi(v), taken when it is not negative
OffsetOf(v) ==
    IF v # <<>> /\ ~ParseInt(v).err /\ ParseInt(v).val >= 0 THEN ParseInt(v).val ELSE 0

\* ORDER BY uploaded_at DESC: row i has to come before row j
RecentFirst(rows, i, j) == TextLess(rows[j].uploaded_at, rows[i].uploaded_at)

\* the score expression of the ranked query for one row
ScoreOf(row, toks) ==
    LET starts == IF Like(row.filename, SqlLiteral(<<>>, toks[1]).value) THEN 200 ELSE 0
        has(k) == IF Like(row.filename, SqlLiteral(<<"%">>, toks[k]).value) THEN 50 ELSE 0
        RECURSIVE sum(_)
        sum(k) == IF k = 0 THEN 0 ELSE has(k) + sum(k - 1)
    IN  starts + sum(Len(toks))

\* ORDER BY score DESC, uploaded_at DESC
RankedFirst(rows, scores, i, j) ==
    \/ scores[i] > scores[j]
    \/ scores[i] = scores[j] /\ RecentFirst(rows, i, j)

\* the orders SQLite may return the rows ids in under an ORDER BY that puts i
\* before j when Before(i, j): rows that tie come in any order
Orderings(ids, Before(_, _)) ==
    { f \in [1..Cardinality(ids) -> ids] :
        /\ \A k, l \in DOMAIN f : f[k] = f[l] => k = l
        /\ \A k, l \in DOMAIN f : k < l => ~Before(f[l], f[k]) }

\* LIMIT ? OFFSET ?
LimitOffset(seq, limit, offset) ==
    SubSeq(seq, offset + 1, IF offset + limit < Len(seq) THEN offset + limit ELSE Len(seq))

\* an item of the answer as scanMediaRows builds it: path is relAPIPath(filepath)
Item(rows, i, score) ==
    [id |-> i, name |-> rows[i].filename, path |-> relAPIPath(DataDir, rows[i].filepath),
     uploadedAt |-> rows[i].uploaded_at, score |-> score]

\* an answer of /api/search, and with it the rows the handler read from the store
SearchAnswer(status, source, query, limit, offset, read, items) ==
    [status |-> status, source |-> source, query |-> query, limit |-> limit,
     offset |-> offset, read |-> read, items |-> items, fts |-> "none"]

\* the answers SearchHandler of search.go can give, without FTS5 (InitSearchIndex is called nowhere, so
\* hasFTS5 keeps its zero value) and without the mime and date filters
SearchHandler(rows, query, limitArg, offsetArg) ==
    LET q == TrimSpace(query)
        limit == LimitOf(limitArg)
        offset == OffsetOf(offsetArg)
        toks == tokenize(q)
        scores == [i \in DOMAIN rows |-> ScoreOf(rows[i], toks)]
        recent(i, j) == RecentFirst(rows, i, j)
        ranked(i, j) == RankedFirst(rows, scores, i, j)
        likeIds == { i \in DOMAIN rows : Like(rows[i].filename, Contains(q)) }
        rankedIds == { i \in DOMAIN rows :
                         \A k \in DOMAIN toks :
                            \/ Like(rows[i].filename, Contains(toks[k]))
                            \/ Like(rows[i].filepath, Contains(toks[k])) }
        literalsOk == /\ SqlLiteral(<<>>, toks[1]).ok
                      /\ \A k \in DOMAIN toks : SqlLiteral(<<"%">>, toks[k]).ok
        answer(source, order, withScore) ==
            SearchAnswer(200, source, q, limit, offset,
                { LimitOffset(order, limit, offset)[k] :
                    k \in DOMAIN LimitOffset(order, limit, offset) },
                [k \in DOMAIN LimitOffset(order, limit, offset) |->
                    Item(rows, LimitOffset(order, limit, offset)[k],
                         IF withScore THEN scores[LimitOffset(order, limit, offset)[k]] ELSE 0)])
    IN  IF q = <<>>
        THEN { answer("", order, FALSE) : order \in Orderings(DOMAIN rows, recent) }
        ELSE IF toks = <<>>
        THEN { answer("like", order, FALSE) : order \in Orderings(likeIds, recent) }
        ELSE IF ~literalsOk
        THEN { SearchAnswer(500, "db error", q, limit, offset, {}, <<>>) }
        ELSE { answer("like_ranked", order, TRUE) : order \in Orderings(rankedIds, ranked) }

\* strings.ReplaceAll(p, `"`, `""`)
RECURSIVE DoubleQuotes(_)
DoubleQuotes(p) ==
    IF p = <<>> THEN <<>>
    ELSE IF p[1] = "\"" THEN <<"\"", "\"">> \o DoubleQuotes(Tail(p))
    ELSE <<p[1]>> \o DoubleQuotes(Tail(p))

\* buildFTSMatch: the fields between spaces of two characters or more, quotes
\* doubled, each with a star, joined by OR
buildFTSMatch(query) ==
    LET parts == SelectSeq(Split(TrimSpace(query), Space), LAMBDA p : Len(p) >= 2)
        toks == [k \in DOMAIN parts |-> DoubleQuotes(parts[k]) \o <<"*">>]
    IN  JoinStr(toks, <<" ", "O", "R", " ">>)

\* the answers of SearchHandler once InitSearchIndex has set hasFTS5. The query on
\* media_fts returns rows or an error; the rows are those the index of SQLite
\* holds for the match, any rows of files here. fts tells how that query ended.
SearchHandlerFTS(rows, query, limitArg, offsetArg) ==
    LET q == TrimSpace(query)
        limit == LimitOf(limitArg)
        offset == OffsetOf(offsetArg)
        recent(i, j) == RecentFirst(rows, i, j)
        fallback == SearchHandler(rows, query, limitArg, offsetArg)
        page(order) == LimitOffset(order, limit, offset)
        answered(order) ==
            [SearchAnswer(200, "fts", q, limit, offset,
                 { page(order)[k] : k \in DOMAIN page(order) },
                 [k \in DOMAIN page(order) |-> Item(rows, page(order)[k], 0)])
             EXCEPT !.fts = "ok"]
    IN  IF q = <<>> \/ buildFTSMatch(q) = <<>>
        THEN fallback
        ELSE { [a EXCEPT !.fts = "error"] : a \in fallback }
             \cup UNION { { answered(order) : order \in Orderings(ids, recent) } :
                            ids \in SUBSET DOMAIN rows }

\* ---- the steps

SunsetQuery == <<"s", "u", "n", "s", "e", "t">>
SearchQueries == { <<>>, SunsetQuery }
LimitInputs == { <<>>, <<"1">>, <<"2">> }
OffsetInputs == { <<>>, <<"1">> }

QueryAlphabet == {"a", "'", "\"", "%", "_", " "}
QueryInputs == StringsUpTo(QueryAlphabet, MaxQueryLen)

\* no search has been answered yet: a run ends with its search
Serving == searchResp = NoSearch

\* the clock moves on by a second
Tick ==
    /\ Serving
    /\ now < MaxClock
    /\ now' = now + 1
    /\ UNCHANGED <<disk, dirs, filesTable, chans, searchResp, notSearch>>

\* UploadHandler for a file with one of the names and one of the contents:
\* storage.SaveFile creates or truncates DataDir/name and writes the content
UploadOf(names, contents) ==
    /\ Serving
    /\ \E filename \in names, content \in contents :
          LET savedPath == Join(DataDir, Base(filename))
          IN  /\ dirs' = dirs \cup MkdirAll(DataDir)
              /\ disk' = WriteFile(disk, savedPath, content)
              /\ filesTable' = InsertOrIgnore(filesTable,
                     FileRow(filename, savedPath, <<>>, CurrentTimestamp(now)))
              /\ chans' = SendTo(thumbnailQueue, savedPath)
    /\ UNCHANGED <<now, searchResp, notSearch>>

\* UploadHandler: POST /api/upload
UploadHandler == UploadOf(UploadNames, {"B1"})

\* the indexing goroutine of main: one IndexDataDirSync run over the data
\* directory, then the thumbnail jobs for what it processed
IndexDataDirSync ==
    /\ Serving
    /\ filesTable' = IndexWalk(filesTable, DataDir, Walked(disk, DataDir), 1, now)
    /\ chans' = EnqueueProcessed(chans, DataDir, Walked(disk, DataDir), 1)
    /\ UNCHANGED <<disk, dirs, now, searchResp, notSearch>>

\* GET /api/search with one of the queries of the scenarios
Search ==
    /\ Serving
    /\ \E q \in SearchQueries, l \in LimitInputs, o \in OffsetInputs :
          searchResp' \in SearchHandler(filesTable, q, l, o)
    /\ UNCHANGED <<disk, dirs, filesTable, chans, now, notSearch>>

\* GET /api/search with any short text
SearchText ==
    /\ Serving
    /\ \E q \in QueryInputs : searchResp' \in SearchHandler(filesTable, q, <<>>, <<>>)
    /\ UNCHANGED <<disk, dirs, filesTable, chans, now, notSearch>>

SearchNext ==
    \/ Tick
    \/ UploadHandler
    \/ IndexDataDirSync
    \/ Search

SpecSearch == WorkInit /\ [][SearchNext]_vars

\* GET /api/search with any short text, on a server whose InitSearchIndex found FTS5
SearchTextFTS ==
    /\ Serving
    /\ \E q \in QueryInputs : searchResp' \in SearchHandlerFTS(filesTable, q, <<>>, <<>>)
    /\ UNCHANGED <<disk, dirs, filesTable, chans, now, notSearch>>

FtsNext ==
    \/ Tick
    \/ UploadHandler
    \/ SearchTextFTS

SpecFts == WorkInit /\ [][FtsNext]_vars

\* two names that differ in the extension only
TwinNames == { <<"a", ".", "jpg">>, <<"a", ".", "png">> }

\* POST /api/upload of a file under one of the two names, any content
UploadTwin == UploadOf(TwinNames, Contents)

\* uploads to the data directory, the thumbnail workers, and /api/thumbnail for
\* the uploaded names
TwinNext ==
    \/ UploadTwin
    \/ ThumbnailWorker
    \/ \E name \in TwinNames : ThumbnailHandler(<<Slash>> \o name)

SpecTwin == WorkInit /\ [][TwinNext]_vars

QueryNext ==
    \/ Tick
    \/ UploadHandler
    \/ SearchText

SpecQuery == WorkInit /\ [][QueryNext]_vars

\* ------------------------------------------------------------------ regex search

\* a literal whose UTF-8 encoding has two bytes
TwoByte == "U"

\* the characters of a pattern: a literal of one byte, a literal of two bytes, and
\* the operators
RegexAlphabet == {"a", TwoByte, "(", ")", "*"}
RegexInputs == StringsUpTo(RegexAlphabet, MaxPatternLen + 1) \cup { <<" ", "a">> }

ScanCap == 2             \* rows a regex search examines (5000 in the code), scaled down
MaxRows == 3             \* most rows of the media table a regex search is run on

\* len(pattern): the bytes of its UTF-8 encoding
RECURSIVE ByteLen(_)
ByteLen(p) == IF p = <<>> THEN 0 ELSE (IF p[1] = TwoByte THEN 2 ELSE 1) + ByteLen(Tail(p))

\* a length check that lets every pattern through
PatternNeverTooLong(p) == FALSE

\* len(pattern) > 200
PatternTooLong(p) == ByteLen(p) > MaxPatternLen

\* regexp.Compile on this alphabet: the parentheses pair up, and a star follows a
\* literal or a group and no other star
RECURSIVE CompilesFrom(_, _, _, _)
CompilesFrom(p, i, depth, prev) ==
    IF i > Len(p) THEN depth = 0
    ELSE IF p[i] = "(" THEN CompilesFrom(p, i + 1, depth + 1, "start")
    ELSE IF p[i] = ")" THEN depth > 0 /\ CompilesFrom(p, i + 1, depth - 1, "atom")
    ELSE IF p[i] = "*" THEN prev = "atom" /\ CompilesFrom(p, i + 1, depth, "star")
    ELSE CompilesFrom(p, i + 1, depth, "atom")

Compiles(p) == CompilesFrom(p, 1, 0, "start")

\* the index of the ")" that closes the group whose inside begins at i
RECURSIVE CloseOf(_, _, _)
CloseOf(p, i, depth) ==
    IF p[i] = "(" THEN CloseOf(p, i + 1, depth + 1)
    ELSE IF p[i] = ")" THEN (IF depth = 1 THEN i ELSE CloseOf(p, i + 1, depth - 1))
    ELSE CloseOf(p, i + 1, depth)

\* Ends: the numbers of characters of s a match of p[i..j] can have consumed when
\* it began with one of the numbers in from; Once does so for the literal or group
\* at i, StarEnds for any number of repetitions of it
RECURSIVE Ends(_, _, _, _, _)
RECURSIVE Once(_, _, _, _, _)
RECURSIVE StarEnds(_, _, _, _, _)
Once(p, i, close, s, from) ==
    IF p[i] = "(" THEN Ends(p, i + 1, close - 1, s, from)
    ELSE { k + 1 : k \in { k \in from : k < Len(s) /\ s[k + 1] = p[i] } }

StarEnds(p, i, close, s, from) ==
    LET more == from \cup Once(p, i, close, s, from)
    IN  IF more = from THEN from ELSE StarEnds(p, i, close, s, more)

Ends(p, i, j, s, from) ==
    IF i > j THEN from
    ELSE LET close == IF p[i] = "(" THEN CloseOf(p, i + 1, 1) ELSE i
             starred == close < j /\ p[close + 1] = "*"
         IN  Ends(p, IF starred THEN close + 2 ELSE close + 1, j, s,
                  IF starred THEN StarEnds(p, i, close, s, from)
                  ELSE Once(p, i, close, s, from))

\* re.MatchString(s): the pattern matches somewhere in s
MatchString(p, s) == Ends(p, 1, Len(p), s, 0..Len(s)) # {}

\* the media rows ORDER BY uploaded_at DESC LIMIT n: uploaded_at is the time of the
\* insert, so the newest row is the one with the greatest id
RecentMedia(rows, n) == [k \in 1..Min(Len(rows), n) |-> Len(rows) + 1 - k]

\* a scan that stops once limit rows matched
KeepUpToLimit(hits, offset, limit) == SubSeq(hits, 1, Min(Len(hits), limit))

\* the matches collected when the scan ends: `if count >= offset+limit { break }`
KeepUpTo(hits, offset, limit) == SubSeq(hits, 1, Min(Len(hits), offset + limit))

MediaItem(rows, i) ==
    [id |-> i, name |-> rows[i].filename, path |-> relAPIPath(DataDir, rows[i].filepath)]

\* handleRegexSearch; exif_datetime and camera_model are NULL and scan as ""
handleRegexSearch(rows, pattern, offset, limit) ==
    LET recent == LimitOffset(RecentMedia(rows, Len(rows)), limit, offset)
        scanned == RecentMedia(rows, ScanCap)
        hits == SelectSeq(scanned, LAMBDA i :
                    \/ MatchString(pattern, rows[i].filename)
                    \/ MatchString(pattern, <<>>))
        kept == KeepUpTo(hits, offset, limit)
        page == LimitOffset(kept, limit, offset)
        ids(seq) == { seq[k] : k \in DOMAIN seq }
    IN  IF pattern = <<>>
        THEN SearchAnswer(200, "regex", pattern, limit, offset, ids(recent),
                 [k \in DOMAIN recent |-> MediaItem(rows, recent[k])])
        ELSE IF PatternTooLong(pattern)
        THEN SearchAnswer(400, "regex", pattern, limit, offset, {}, <<>>)
        ELSE IF ~Compiles(pattern)
        THEN SearchAnswer(400, "regex", pattern, limit, offset, {}, <<>>)
        ELSE SearchAnswer(200, "regex", pattern, limit, offset, ids(scanned),
                 [k \in DOMAIN page |-> MediaItem(rows, page[k])])

\* SyncUploadHandler for a request that comes before the search of the run
UploadBeforeSearch(u) == Serving /\ SyncUploadHandler(u)

\* GET /api/search?regex=1&query=...: SearchHandler of the media table
RegexSearch ==
    /\ Serving
    /\ \E query \in RegexInputs, l \in LimitInputs, o \in OffsetInputs :
          searchResp' = handleRegexSearch(media, TrimSpace(query), OffsetOf(o), LimitOf(l))
    /\ UNCHANGED <<disk, dirs, filesTable, chans, now, notSearch>>

RegexNext ==
    \/ \E u \in Callers : UploadBeforeSearch(u)
    \/ RegexSearch

SpecRegex == WorkInit /\ [][RegexNext]_vars

\* a media table of n rows as uploads from n devices leave it: row i records the
\* file names[i] of device i, stored with content of its own
PageDevice(i) == Itoa(i)
PagePath(names, i) == Join(DeviceDir(DataDir, PageDevice(i)), names[i])
PageContent(i) == <<"B1", "B2", "B3", "B4">>[i]
PageTable(names) ==
    [i \in DOMAIN names |->
        MediaRow(names[i], PagePath(names, i), Sha256Hex(PageContent(i)), PageDevice(i))]

PageOffsets == OffsetInputs \cup { <<"2">> }

\* patterns that match the name a.jpg, every name, or no name, and one that does
\* not compile
PagePatterns == { <<"a">>, <<"a", "*">>, <<"(", "a", ")">>, <<"a", "a">>, <<TwoByte>>,
                  <<"(">> }

\* the server after up to MaxRows uploads, its queues drained
PageInit ==
    /\ FileQuiet
    /\ WorkQuiet
    /\ mainPc = "listen"
    /\ chans = <<NewChan("thumb", MainConcurrency), NewChan("backup", MainConcurrency)>>
    /\ thumbnailQueue = 1
    /\ backupQueue = 2
    /\ lazy = [spawned |-> 0, check |-> 0, make |-> 0]
    /\ indexLeft = 0
    /\ callPc = [c \in Callers |-> "idle"]
    /\ callJob = [c \in Callers |-> <<>>]
    /\ lastBackup = [c \in Callers |-> NoCall]
    /\ lastThumb = [c \in Callers |-> "none"]
    /\ upPc = [u \in Callers |-> "new"]
    /\ upReq = [u \in Callers |-> NoUpload]
    /\ upTmp = [u \in Callers |-> <<>>]
    /\ upFinal = [u \in Callers |-> <<>>]
    /\ upId = [u \in Callers |-> 0]
    /\ upResp = [u \in Callers |-> NoAnswer]
    /\ before = [u \in Callers |-> {}]
    /\ \E names \in StringsUpTo(FileNames, MaxRows) :
          /\ media = PageTable(names)
          /\ disk = [p \in { PagePath(names, i) : i \in DOMAIN names } |->
                        PageContent(CHOOSE i \in DOMAIN names : PagePath(names, i) = p)]
          /\ dirs = MkdirAll(DataDir) \cup
                    UNION { MkdirAll(DeviceDir(DataDir, PageDevice(i))) : i \in DOMAIN names }

\* GET /api/search?regex=1 with a query, a limit and an offset
RegexPage ==
    /\ Serving
    /\ \E query \in PagePatterns, l \in LimitInputs, o \in PageOffsets :
          searchResp' = handleRegexSearch(media, TrimSpace(query), OffsetOf(o), LimitOf(l))
    /\ UNCHANGED <<disk, dirs, filesTable, chans, now, notSearch>>

SpecPage == PageInit /\ [][RegexPage]_vars

\* ------------------------------------------------------------------ search claims

\* the instant row i was (last) recorded at
RecordedAt(i) == Instant(filesTable[i].uploaded_at)

\* the rows the answer lists
PageIds == { searchResp.items[k].id : k \in DOMAIN searchResp.items }

\* the answer to an empty query is a page of the rows put most recent first: its
\* items are rows of the table, none twice, each at least as recent as the next,
\* the rows before the page are offset many and none is older than an item, and
\* the rows after the page are none more recent than an item
PageOfRecentFirst ==
    LET items == searchResp.items
        n == Len(filesTable)
        rest == DOMAIN filesTable \ PageIds
    IN  /\ PageIds \subseteq DOMAIN filesTable
        /\ Cardinality(PageIds) = Len(items)
        /\ Len(items) = Min(searchResp.limit, IF n > searchResp.offset
                                              THEN n - searchResp.offset ELSE 0)
        /\ \A k \in 1..(Len(items) - 1) :
              RecordedAt(items[k].id) >= RecordedAt(items[k + 1].id)
        /\ \E skipped \in SUBSET rest :
              /\ Cardinality(skipped) = Min(searchResp.offset, n)
              /\ \A i \in skipped, j \in PageIds : RecordedAt(i) >= RecordedAt(j)
              /\ \A i \in rest \ skipped, j \in PageIds : RecordedAt(i) <= RecordedAt(j)

\* C14: the answer to an empty query lists the records by upload time, most
\* recent first, and with limit L and offset O it is positions O..O+L-1 of that
\* order.
EmptyQueryRecentFirst ==
    searchResp.status = 200 /\ searchResp.query = <<>> => PageOfRecentFirst

NamesRecorded == { filesTable[i].filename : i \in DOMAIN filesTable }

\* the query sunset was answered by the ranked scan with the default page, and both
\* files are recorded
SunsetAnswered ==
    /\ searchResp.source = "like_ranked"
    /\ searchResp.query = SunsetQuery
    /\ searchResp.limit = DefaultLimit /\ searchResp.offset = 0
    /\ NamesRecorded = { SunsetJpg, SunsetBeachJpg }

\* C15: the ranked scan for sunset returns sunset.jpg and sunset_beach.jpg, gives
\* sunset.jpg a score that is at least that of sunset_beach.jpg, and does not place
\* sunset.jpg after sunset_beach.jpg, whenever the two were uploaded.
SunsetRankedFirst ==
    SunsetAnswered =>
        LET items == searchResp.items
        IN  /\ { items[k].name : k \in DOMAIN items } = { SunsetJpg, SunsetBeachJpg }
            /\ \A k, l \in DOMAIN items :
                  items[k].name = SunsetJpg /\ items[l].name = SunsetBeachJpg
                     => /\ items[k].score >= items[l].score
                        /\ k < l

\* C17: whatever the text of the query, search answers with a result
\* {items, offset, limit, source}, never with an error status.
SearchAlwaysAnswers ==
    searchResp # NoSearch => searchResp.status = 200

\* ------------------------------------------------------------------ files table claims

\* the file on disk a row of the files table stands for
RowFile(row) ==
    IF IsWithin(Abs(DataDir), row.filepath) THEN row.filepath
    ELSE Join(Abs(DataDir), TrimPrefix(row.filepath, <<Slash>>))

RowsFor(rows, p) == { i \in DOMAIN rows : RowFile(rows[i]) = p }

\* no two rows stand for the same file
OneRowPerFile ==
    \A i, j \in DOMAIN filesTable :
        RowFile(filesTable[i]) = RowFile(filesTable[j]) => i = j

\* an upload or an indexing run that meets a file already recorded adds no row for
\* it and leaves its row with the mime type and the time of this step
ReingestUpdates ==
    \A p \in DOMAIN disk :
        RowsFor(filesTable, p) # {} /\ (filesTable' # filesTable \/ disk' # disk)
           => /\ Cardinality(RowsFor(filesTable', p)) = Cardinality(RowsFor(filesTable, p))
              /\ disk'[p] # disk[p] \/ filesTable' # filesTable
                    => \A i \in RowsFor(filesTable', p) :
                          Instant(filesTable'[i].uploaded_at) = now

\* C20: the files table holds one record for each physical file: no two rows are
\* for the same file on disk, and ingesting a recorded file again, by upload or by
\* IndexDataDirSync, updates its row and adds none.
FilesOneRecordPerFile ==
    /\ []OneRowPerFile
    /\ [][ReingestUpdates]_vars

\* ------------------------------------------------------------------ regex claims

\* the search was answered in regex mode
RegexAnswered == searchResp.source = "regex"

\* the pattern of the answer has more characters than the maximum, or does not
\* compile
BadPattern ==
    \/ Len(searchResp.query) > MaxPatternLen
    \/ ~Compiles(searchResp.query)

\* C16: in regex mode a pattern longer than the maximum, and a pattern that does
\* not compile, is answered with 400 Bad Request and no row of the store has been
\* read for it.
BadPatternRejected ==
    RegexAnswered /\ BadPattern => searchResp.status = 400 /\ searchResp.read = {}

\* a pattern that compiles but is too long was refused while the table had rows
BadPatternRejectedWitness ==
    /\ RegexAnswered
    /\ media # <<>>
    /\ Len(searchResp.query) > MaxPatternLen
    /\ Compiles(searchResp.query)
    /\ searchResp.status = 400

\* ------------------------------------------------------------------ panic recovery

GenericError == "internal server error"

\* what a handler hands to the middleware around it: the response written so far
\* and whether a panic is unwinding the stack
PanicBeforeWrite == [resp |-> NoAnswer, panicking |-> TRUE]

\* a middleware that calls next and nothing else
PassThrough(out) == out

\* RecoverJSON: the deferred recover() ends the panic, WriteHeader(500) sets the
\* status unless one has been written, and the error is encoded into the body
RecoverJSON(out) ==
    IF out.panicking
    THEN [resp |-> [out.resp EXCEPT !.status = IF @ = 0 THEN 500 ELSE @,
                                    !.error = GenericError],
          panicking |-> FALSE]
    ELSE out

\* the goroutine net/http serves the connection on: a panic that reaches it is
\* recovered there and the connection is closed with what has been written
ConnServe(out) ==
    IF out.panicking
    THEN [resp |-> [out.resp EXCEPT !.error = "connection closed"], panicking |-> FALSE]
    ELSE out

\* a request to /api/sync/upload served by main of part_002 while the INSERT works
ServeSyncUpload(u) == mainPc = "listen" /\ SyncUploadHandler(u)

\* the same request when the INSERT fails: the file is stored, res is nil and
\* res.LastInsertId() panics before the handler has written anything
ServeSyncUploadPanics(u) ==
    /\ mainPc = "listen"
    /\ upPc[u] = "new"
    /\ \E content \in Contents, filename \in WorkFileNames, device \in WorkDeviceIDs :
          LET deviceDir == DeviceDir(DataDir, device)
              tmpPath == Join(deviceDir, TmpName(u, filename))
              withTmp == WriteFile(disk, tmpPath, content)
              madeDirs == dirs \cup MkdirAll(deviceDir)
              finalPath == ChooseFinalPath(withTmp, madeDirs, deviceDir, filename)
              out == ConnServe(RecoverJSON(PanicBeforeWrite))
          IN  /\ DuplicateRows(media, Sha256Hex(content)) = {}
              /\ upReq' = [upReq EXCEPT ![u] =
                     [content |-> content, filename |-> filename, device |-> device]]
              /\ dirs' = madeDirs
              /\ disk' = RenameFile(withTmp, tmpPath, finalPath)
              /\ upFinal' = [upFinal EXCEPT ![u] = finalPath]
              /\ upResp' = [upResp EXCEPT ![u] = out.resp]
              /\ mainPc' = IF out.panicking THEN "down" ELSE mainPc
    /\ upPc' = [upPc EXCEPT ![u] = "done"]
    /\ before' = [before EXCEPT ![u] = { v \in Callers : upPc[v] = "done" }]
    /\ UNCHANGED <<media, chans, upTmp, upId, fileVars, workVars, queryVars>>
    /\ UNCHANGED <<thumbnailQueue, backupQueue, lazy, indexLeft, callPc, callJob,
                   lastBackup, lastThumb>>

PanicNext ==
    \/ \E u \in Callers : ServeSyncUpload(u)
    \/ \E u \in Callers : ServeSyncUploadPanics(u)

SpecPanic == WorkInit /\ [][PanicNext]_vars

\* ------------------------------------------------------------------ panic claims

\* the handler of request u panicked: its file was stored but it never got an id
HandlerPanicked(u) == upPc[u] = "done" /\ upFinal[u] # <<>> /\ upId[u] = 0

\* a request whose handler panicked was answered with status 500 and the generic
\* JSON error
PanicAnswered ==
    \A u \in Callers :
        HandlerPanicked(u) => upResp[u].status = 500 /\ upResp[u].error = GenericError

\* a request whose handler did not panic was answered 200, with the record it
\* added or as a duplicate, whether or not a handler panicked before it
OthersServed ==
    \A v \in Callers :
        upPc[v] = "done" /\ ~HandlerPanicked(v)
           => /\ upResp[v].status = 200
              /\ upResp[v].skipped \/ upResp[v].id \in DOMAIN media

\* C18: a request whose handler panicked is answered with status 500 and the
\* generic JSON error; the server keeps listening, and the other requests, those
\* after the panic too, are served as usual.
PanicAnsweredServerUp ==
    /\ PanicAnswered
    /\ mainPc = "listen"
    /\ OthersServed

\* one request was answered 500 after a panic and another, served after it, was
\* answered 200 with its record
PanicAnsweredWitness ==
    \E u, v \in Callers :
        /\ HandlerPanicked(u)
        /\ upResp[u].status = 500
        /\ v \notin before[u]
        /\ upResp[v].status = 200 /\ upResp[v].id > 0

\* ------------------------------------------------------------------ concurrent upload claims

\* the requests under way or ended, other than u, that carry other content than u
OthersWithOtherContent(u) ==
    { v \in Callers \ {u} : upPc[v] # "new" /\ upReq[v].content # upReq[u].content }

\* request u moves its temporary file into place in this step
Moves(u) == upPc[u] = "move" /\ upPc'[u] = "insert"

\* the final name a request moves its file to is free when it moves it
FinalFreeAtMove ==
    \A u \in Callers :
        Moves(u) /\ OthersWithOtherContent(u) = Callers \ {u}
           => ~Exists(disk, dirs, upFinal[u])

\* no two rows of the media table have the same filepath
NoSharedFilepath ==
    \A i, j \in DOMAIN media : media[i].filepath = media[j].filepath => i = j

\* C21: concurrent device-sync uploads with different content each end at a final
\* path of their own: the final name is free when the file is moved into place,
\* so no upload replaces the file of another, and no two media records share a
\* filepath.
UploadsKeepOwnPath ==
    /\ [][FinalFreeAtMove]_vars
    /\ []NoSharedFilepath

\* ------------------------------------------------------------------ concurrent backup claims

\* the destinations the backup jobs of the recorded uploads are copied to
BackupDests == { BackupDest(DataDir, media[i].filepath) : i \in DOMAIN media }

\* no file under a backup destination is one CopyFile has not finished writing
DestNeverPartial ==
    \A d \in BackupDests : d \in DOMAIN disk => disk[d] # Truncated

\* a worker whose CopyFile reached its rename goes on to update the record
RenameSucceeds ==
    \A w \in BackupWorkers : work[w].pc = "rename" => work'[w].pc \in {"rename", "update"}

\* a record is marked only when its backup_path holds a finished file
MarkedComplete ==
    \A i \in DOMAIN media :
        media[i].backed_up = 1 /\ media[i].backup_path \in DOMAIN disk
           => disk[media[i].backup_path] # Truncated

\* C22: backup jobs run in any order and side by side in several workers, jobs for
\* one source among them, are safe: no file that is still being written is ever
\* visible at the destination path, every copy that reaches its rename completes
\* and marks its record, and a marked record has a complete copy.
ConcurrentBackupSafe ==
    /\ []DestNeverPartial
    /\ []MarkedComplete
    /\ [][RenameSucceeds]_vars

\* ------------------------------------------------------------------ upload cleanup claims

\* an ended request has left no temporary file
TmpGone(u) == upPc[u] = "done" => upTmp[u] \notin DOMAIN disk

\* the request failed on os.Rename and on storage.CopyFile
MoveFailed(u) == upPc[u] = "done" /\ upResp[u].error = "move error"

\* nothing of a copy that failed is left at the final path or beside it
NoPartialAtFinal(u) ==
    /\ TmpOf(upFinal[u]) \notin DOMAIN disk
    /\ upFinal[u] \in DOMAIN disk => disk[upFinal[u]] # Truncated

RegexPaged ==
    searchResp.status = 200 /\ searchResp.source = "regex" /\ searchResp.query # <<>>

\* the rows among the ScanCap most recent whose filename, exif datetime or camera
\* model matches the pattern of the answer
MatchingRecent ==
    { i \in DOMAIN media :
        /\ i > Len(media) - ScanCap
        /\ \/ MatchString(searchResp.query, media[i].filename)
           \/ MatchString(searchResp.query, <<>>) }

\* the number of matching rows more recent than row i
MatchesBefore(i) == Cardinality({ j \in MatchingRecent : j > i })

\* the rows of the answer, in its order
PagedIds == [k \in DOMAIN searchResp.items |-> searchResp.items[k].id]

\* C24: the items of a regex search are elements offset..offset+limit-1 of the
\* matching rows put most recent first, of the ScanCap most recent rows only:
\* the k-th item is the matching row with offset+k-1 matching rows before it, and
\* the page is as long as limit and the matching rows left allow.
RegexPageExact ==
    RegexPaged =>
        /\ \A k \in DOMAIN PagedIds :
              /\ PagedIds[k] \in MatchingRecent
              /\ MatchesBefore(PagedIds[k]) = searchResp.offset + k - 1
        /\ Len(PagedIds) =
              Min(searchResp.limit,
                  IF Cardinality(MatchingRecent) > searchResp.offset
                  THEN Cardinality(MatchingRecent) - searchResp.offset ELSE 0)

\* three rows match among which the scan cap leaves two, and the answer is the
\* second of them: the scan went on past the first match
RegexPageExactWitness ==
    /\ RegexPaged
    /\ Len(media) > ScanCap
    /\ Cardinality(MatchingRecent) = ScanCap
    /\ searchResp.offset = 1 /\ searchResp.limit = 1
    /\ Len(searchResp.items) = 1

\* ------------------------------------------------------------------ FTS fallback claims

ThumbAttempted ==
    \/ thumbLast.by = "worker"
    \/ thumbLast.by = "handler" /\ thumbLast.status # 400

\* C26: after a thumbnail generation attempt for any source file the endpoint
\* never answers 404: when the thumbnail cannot be made a blank placeholder is
\* written, so the artifact exists after every attempt.
ThumbnailNever404 ==
    /\ thumbLast.status # 404
    /\ ThumbAttempted => thumbLast.dst \in DOMAIN disk

\* ------------------------------------------------------------------ insert failure claims

\* the INSERT of request u failed: its file is stored and no row was added for it
InsertFailed(u) == upPc[u] = "done" /\ upFinal[u] # <<>> /\ upId[u] = 0

\* the paths of the jobs waiting in a queue
QueuedBackups == { chans[backupQueue].buf[k].absPath : k \in DOMAIN chans[backupQueue].buf }
QueuedThumbnails == { chans[thumbnailQueue].buf[k] : k \in DOMAIN chans[thumbnailQueue].buf }

\* C27: when the INSERT of the media record fails the handler logs and goes on: it
\* does not panic, it enqueues the backup and the thumbnail job of the stored
\* file, and it writes its JSON response.
InsertFailureContinues ==
    \A u \in Callers :
        InsertFailed(u) =>
            /\ upResp[u].status = 200 /\ ~upResp[u].skipped
            /\ upResp[u].path = relAPIPath(DataDir, upFinal[u])
            /\ upFinal[u] \in QueuedBackups
            /\ upFinal[u] \in QueuedThumbnails

\* ------------------------------------------------------------------ item path claims

\* the path of an item resolves, through absClean, to the file its row stands for
ItemResolves(item) ==
    LET r == absClean(DataDir, item.path)
    IN  /\ ~r.err
        /\ r.path = RowFile(filesTable[item.id])
        /\ r.path \in DOMAIN disk

\* relAPIPath and then absClean give back the file of a stored filepath
RoundTrip(row) ==
    LET r == absClean(DataDir, relAPIPath(DataDir, row.filepath))
    IN  ~r.err /\ r.path = RowFile(row)

\* C28: the path of every item a search returns resolves through absClean to the
\* location of the file on disk, for records written by an upload (absolute
\* filepath) and by IndexDataDirSync (API path); relAPIPath followed by absClean
\* is a round trip on every stored filepath.
ItemPathsResolve ==
    /\ \A k \in DOMAIN searchResp.items : ItemResolves(searchResp.items[k])
    /\ \A i \in DOMAIN filesTable : RoundTrip(filesTable[i])

\* ------------------------------------------------------------------ thumbnail freshness claims

\* the uploaded files: those directly in the data directory
SourceFiles == { p \in DOMAIN disk : Dir(p) = DataDir }

\* no two source files have the same artifact
OwnArtifact ==
    \A p, q \in SourceFiles : thumbPathFor(DataDir, p) = thumbPathFor(DataDir, q) => p = q

\* /api/thumbnail answers 200 in this step
Serves == thumbLast' # thumbLast /\ thumbLast'.by = "handler" /\ thumbLast'.status = 200

\* the artifact the step serves was made from the bytes its source has now
ServedFromCurrent ==
    Serves => /\ thumbLast'.src \in DOMAIN disk'
              /\ disk'[thumbLast'.dst][2] = disk'[thumbLast'.src]

\* C29: the artifact the thumbnail endpoint serves for a file was generated from
\* the current content of that file: two source files never have one artifact,
\* and after a file was replaced by an upload under the same name its old
\* thumbnail is not served.
ThumbnailOfCurrentFile ==
    /\ []OwnArtifact
    /\ [][ServedFromCurrent]_vars

\* ------------------------------------------------------------------ pool liveness claims

\* channel q holds a job
Holds(q) == q \in DOMAIN chans /\ chans[q].buf # <<>>

\* C30: every job accepted into the queue of a started pool is eventually taken
\* by a worker and processed, under fair scheduling: a queue that holds jobs is
\* drained by its workers.
AcceptedJobsTaken ==
    \A q \in LiveChans : Holds(q) ~> ~Holds(q)

====
